---- MODULE Spec2Model ----
(***************************************************************************)
(* Agent task-orchestration core of MominAI.                               *)
(*                                                                         *)
(*   Part 1  Agent (src/core/tools/ToolExecutor.ts, class Agent):          *)
(*           start / processLoop / abort / sendMessage / dispose.          *)
(*   Part 2  CheckpointManager (src/core/checkpoints/CheckpointManager.ts):*)
(*           createCheckpoint / restoreCheckpoint / calculateDiff.         *)
(*   Part 3  The stores of one Task: deleteCheckpoint / cleanup, and the   *)
(*           SubtaskManager (src/unnamed/part_003).                        *)
(*   Part 4  AutoApprovalHandler (src/core/approval/AutoApprovalHandler.ts)*)
(*   Part 5  ToolExecutor (src/core/tools/ToolExecutor.ts): executeTools.  *)
(*   Part 6  ToolRepetitionDetector (src/unnamed/part_004).                *)
(*   Part 7  TaskAgent (src/unnamed/part_001) and TaskLevelAgent           *)
(*           (src/core/agent/TaskLevelAgent.ts): executeTool.              *)
(*   Part 8  truncateConversationIfNeeded                                  *)
(*           (src/core/advanced/context/SlidingWindow.ts).                 *)
(*   Part 9  The children of a Task: the SubtaskManager and the            *)
(*           TaskLevelAgent with the processLoop of every child Agent.     *)
(*   Part 10 A CheckpointManager constructed over a checkpoints directory  *)
(*           that earlier managers wrote: initialize /                     *)
(*           loadExistingCheckpoints.                                      *)
(*   Part 11 The TaskAgents of one process (src/unnamed/part_001) and the  *)
(*           McpHub (src/unnamed/part_002) their constructor fetches.      *)
(*   Part 12 The context window and the continuity of the TaskAgent        *)
(*           (src/unnamed/part_001): start / handleContextWindowError /    *)
(*           makeApiRequestWithContinuity.                                 *)
(*                                                                         *)
(* JavaScript runs one callback at a time: an action of this module is the *)
(* code that runs from one suspension point (await) to the next.           *)
(***************************************************************************)
EXTENDS Integers, Sequences, FiniteSets, TLC

VARIABLES
    \* ---- Agent fields
    isRunning,                \* Agent.isRunning
    isAborted,                \* Agent.isAborted
    consecutiveMistakeCount,  \* Agent.consecutiveMistakeCount
    messages,                 \* Agent.messages (the type of each message)
    \* ---- Agent environment
    listening,                \* observers are attached to the EventEmitter
    statusEvents,             \* the 'status' events the observers received
    pc,                       \* position of every start() invocation in flight
    \* ---- history
    abortedDuring,            \* abort() was called while that invocation ran
    disposed,                 \* dispose() has been called
    last,                     \* the step just taken and how it ended
    inputs,                   \* calls and model responses received so far
    \* ---- CheckpointManager and its workspace
    ws,                       \* the workspace tree: path -> node
    checkpoints,              \* CheckpointManager.checkpoints: id -> files
    cpLast,                   \* the checkpoint operation just made
    cpOps,                    \* operations made on the workspace so far
    \* ---- the stores of one Task
    now,                      \* Date.now()
    cpTimes,                  \* Checkpoint.timestamp of every checkpoint
    cpDisk,                   \* ids whose <id>.json is in checkpointsDir
    cpCreated,                \* checkpoint ids issued so far
    cpEvents,                 \* deletion events of the operation just made
    subtasks,                 \* SubtaskManager.subtasks: id -> child
    stCreated,                \* subtask ids issued so far
    \* ---- AutoApprovalHandler
    approvalHistory,          \* AutoApprovalHandler.approvalHistory
    gatePending,              \* calls suspended in askFunction
    gateLast,                 \* the gate step just taken
    gateCalls,                \* calls made on the gate so far
    prompted,                 \* the continuation prompt has been shown
    \* ---- ToolExecutor
    outside,                  \* a file outside the workspace root
    toolUses,                 \* the parsed batch of executeTools in flight
    results,                  \* the results array of that invocation
    toolLast,                 \* the dispatcher step just taken
    toolOps,                  \* tool calls dispatched so far
    toolEvents,               \* the events executeTools has emitted
    \* ---- ToolRepetitionDetector
    consecutiveLimit,         \* ToolRepetitionDetector.consecutiveLimit
    toolHistory,              \* ToolRepetitionDetector.toolHistory
    detLast,                  \* the detectRepetition call just made
    detCalls,                 \* calls made on the detector so far
    \* ---- the Task (TaskAgent, TaskLevelAgent) and its children
    toolRepetitionCount,      \* TaskLevelAgent.toolRepetitionCount
    children,                 \* the child Agents the SubtaskManager created
    waiters,                  \* the promises waitForSubtask returned
    taskLast,                 \* the call on the Task just made
    taskOps,                  \* calls made on the Task so far
    \* ---- TaskAgent: context window and continuity
    contentLength,            \* content.length of the messages of this run
    lastResponseId,           \* TaskAgent.lastResponseId
    skipPrevResponseIdOnce,   \* TaskAgent.skipPrevResponseIdOnce
    \* ---- a CheckpointManager constructed over an existing directory
    loadPc,                   \* position of initialize()
    toLoad,                   \* the files readdir returned, not yet read
    \* ---- the TaskAgents of one process
    components,               \* TaskAgent -> the objects its fields hold
    heap                      \* object -> its state

agentVars == <<isRunning, isAborted, consecutiveMistakeCount, messages,
               listening, statusEvents, pc, abortedDuring, disposed, last,
               inputs>>
cpVars == <<ws, checkpoints, cpLast, cpOps>>
storeVars == <<now, cpTimes, cpDisk, cpCreated, cpEvents, subtasks, stCreated>>
gateVars == <<approvalHistory, gatePending, gateLast, gateCalls, prompted>>
toolVars == <<outside, toolUses, results, toolLast, toolOps, toolEvents>>
detVars == <<consecutiveLimit, toolHistory, detLast, detCalls>>
taskVars == <<toolRepetitionCount, children, waiters, taskLast, taskOps>>
contVars == <<contentLength, lastResponseId, skipPrevResponseIdOnce>>
loadVars == <<loadPc, toLoad>>
hubVars == <<components, heap>>
lateVars == <<contVars, loadVars, hubVars>>
nonAgentVars == <<cpVars, storeVars, gateVars, toolVars, detVars, taskVars,
                  lateVars>>
vars == <<isRunning, isAborted, consecutiveMistakeCount, messages,
          listening, statusEvents, pc, abortedDuring, disposed, last,
          inputs, ws, checkpoints, cpLast, cpOps,
          now, cpTimes, cpDisk, cpCreated, cpEvents, subtasks, stCreated,
          approvalHistory, gatePending, gateLast, gateCalls, prompted,
          outside, toolUses, results, toolLast, toolOps, toolEvents,
          consecutiveLimit, toolHistory, detLast, detCalls,
          toolRepetitionCount, children, waiters, taskLast, taskOps,
          contentLength, lastResponseId, skipPrevResponseIdOnce,
          loadPc, toLoad, components, heap>>

(***************************************************************************)
(* Part 1: Agent                                                           *)
(***************************************************************************)

\* Bound of the model: the calls made on the Agent plus the model responses
\* it receives.  Every start() is a call, so no more than MaxInputs
\* invocations of start() are ever in flight.
MaxInputs == 7

\* options.consecutiveMistakeLimit || 3
consecutiveMistakeLimit == 3

Loops == 1..MaxInputs

\* Positions of one start() invocation.
\*   none      no invocation in this slot (not called, or it has returned
\*             after its finally block)
\*   started   in start(), awaiting addMessage (line 516)
\*   guidance  in processLoop, awaiting handleConsecutiveMistakes (line 541)
\*   request   in processLoop, awaiting makeApiRequest (line 545)
\*   sleep     in processLoop, awaiting the 100 ms timer (line 559)
InFlightPcs == {"started", "guidance", "request", "sleep"}

InFlight(i) == pc[i] \in InFlightPcs

\* Outcomes of one model round-trip, as processLoop distinguishes them.
Responses == {"text", "complete", "empty", "error"}

\* Agent.getStatus
GetStatus ==
    IF isAborted THEN "aborted"
    ELSE IF isRunning THEN "running"
    ELSE "idle"

\* EventEmitter.emit('status', s): delivered to the attached observers only.
EmitStatus(evts, s) == IF listening THEN Append(evts, s) ELSE evts

\* What `last` records: the operation, its error, the invocation that ran
\* (0 for a call), getStatus() before the step, the model response the
\* step received and the events other than 'status' and 'message' that it
\* passed to emit.
Step(op, err, loop) ==
    [op |-> op, err |-> err, loop |-> loop, pre |-> GetStatus,
     response |-> "none", emits |-> <<>>]

NoCall ==
    [op |-> "none", err |-> "none", loop |-> 0, pre |-> "idle",
     response |-> "none", emits |-> <<>>]

\* A call or a response: one more input.
Input == inputs < MaxInputs /\ inputs' = inputs + 1

InitAgent ==
    /\ isRunning = FALSE
    /\ isAborted = FALSE
    /\ consecutiveMistakeCount = 0
    /\ messages = <<>>
    /\ listening = TRUE
    /\ statusEvents = <<>>
    /\ pc = [i \in Loops |-> "none"]
    /\ abortedDuring = [i \in Loops |-> FALSE]
    /\ disposed = FALSE
    /\ last = NoCall
    /\ inputs = 0

\* start()'s finally block: isRunning = false; emit('status', 'stopped').
Finally(i, cnt, msgs, evts) ==
    /\ isRunning' = FALSE
    /\ isAborted' = isAborted
    /\ consecutiveMistakeCount' = cnt
    /\ messages' = msgs
    /\ statusEvents' = EmitStatus(evts, "stopped")
    /\ pc' = [pc EXCEPT ![i] = "none"]

\* processLoop from the while test up to its next await, with the counter
\* and the logs as the code before it left them.
LoopTop(i, cnt, msgs, evts) ==
    IF ~(isRunning /\ ~isAborted)
    THEN Finally(i, cnt, msgs, evts)
    ELSE IF cnt >= consecutiveMistakeLimit
    THEN \* handleConsecutiveMistakes: addMessage, emit awaiting_guidance
         /\ messages' = Append(msgs, "assistant")
         /\ statusEvents' = EmitStatus(evts, "awaiting_guidance")
         /\ consecutiveMistakeCount' = cnt
         /\ pc' = [pc EXCEPT ![i] = "guidance"]
         /\ UNCHANGED <<isRunning, isAborted>>
    ELSE /\ messages' = msgs
         /\ statusEvents' = evts
         /\ consecutiveMistakeCount' = cnt
         /\ pc' = [pc EXCEPT ![i] = "request"]
         /\ UNCHANGED <<isRunning, isAborted>>

LoopStep(i) ==
    /\ last' = Step("loop", "none", i)
    /\ abortedDuring' = [j \in Loops |-> abortedDuring[j] /\ pc'[j] # "none"]

\* The events processLoop and start() pass to emit on response r: the
\* completion (line 555), the error caught (line 562) and, when no listener
\* is attached and emit('error') throws, the error start() catches
\* (line 525).
Emits(r) ==
    CASE r = "complete" -> <<"completion">>
      [] r = "error" -> IF listening THEN <<"error">> ELSE <<"error", "error">>
      [] OTHER -> <<>>

RespondStep(i, r) ==
    /\ last' = [Step("loop", "none", i) EXCEPT !.response = r,
                                              !.emits = Emits(r)]
    /\ abortedDuring' = [j \in Loops |-> abortedDuring[j] /\ pc'[j] # "none"]

\* The completion marker without the break: the loop goes on as after any
\* other response.
CompleteWithoutBreak(i) ==
    /\ messages' = Append(messages, "assistant")
    /\ pc' = [pc EXCEPT ![i] = "sleep"]
    /\ UNCHANGED <<isRunning, isAborted, consecutiveMistakeCount,
                   statusEvents>>

\* addMessage(response); isTaskComplete: emit('completion'); break
Complete(i) ==
    Finally(i, consecutiveMistakeCount, Append(messages, "assistant"),
            statusEvents)

\* Agent.start
StartBody(i) ==
    IF isRunning
    THEN /\ last' = Step("start", "AlreadyRunning", 0)
         /\ UNCHANGED <<isRunning, isAborted, consecutiveMistakeCount, messages,
                        statusEvents, pc>>
    ELSE /\ pc[i] = "none"
         /\ isRunning' = TRUE
         /\ isAborted' = FALSE
         /\ statusEvents' = EmitStatus(statusEvents, "starting")
         /\ messages' = Append(messages, "user")
         /\ pc' = [pc EXCEPT ![i] = "started"]
         /\ last' = Step("start", "none", 0)
         /\ UNCHANGED consecutiveMistakeCount

Start(i) ==
    /\ Input
    /\ \A j \in Loops : j < i => pc[j] # "none"
    /\ StartBody(i)
    /\ UNCHANGED <<listening, abortedDuring, disposed>>
    /\ UNCHANGED nonAgentVars

\* start() resumes after addMessage and enters processLoop.
Enter(i) ==
    /\ UNCHANGED inputs
    /\ pc[i] = "started"
    /\ LoopTop(i, consecutiveMistakeCount, messages, statusEvents)
    /\ LoopStep(i)
    /\ UNCHANGED <<listening, disposed>>
    /\ UNCHANGED nonAgentVars

\* processLoop resumes after handleConsecutiveMistakes: the counter is reset
\* and the model request is issued.
Guidance(i) ==
    /\ UNCHANGED inputs
    /\ pc[i] = "guidance"
    /\ consecutiveMistakeCount' = 0
    /\ pc' = [pc EXCEPT ![i] = "request"]
    /\ LoopStep(i)
    /\ UNCHANGED <<isRunning, isAborted, messages, statusEvents>>
    /\ UNCHANGED <<listening, disposed>>
    /\ UNCHANGED nonAgentVars

\* processLoop resumes after makeApiRequest with outcome r.
RespondBody(i, r) ==
    CASE r = "empty" ->
           \* if (!response) break
           Finally(i, consecutiveMistakeCount, messages, statusEvents)
      [] r = "text" ->
           /\ messages' = Append(messages, "assistant")
           /\ pc' = [pc EXCEPT ![i] = "sleep"]
           /\ UNCHANGED <<isRunning, isAborted, consecutiveMistakeCount,
                          statusEvents>>
      [] r = "complete" -> Complete(i)
      [] r = "error" ->
           IF listening
           THEN \* catch: emit('error'); consecutiveMistakeCount++; next pass
                LoopTop(i, consecutiveMistakeCount + 1, messages, statusEvents)
           ELSE \* emit('error') with no listener throws out of processLoop
                \* and out of start()'s catch; the finally block still runs
                Finally(i, consecutiveMistakeCount, messages, statusEvents)

Respond(i, r) ==
    /\ Input
    /\ pc[i] = "request"
    /\ RespondBody(i, r)
    /\ RespondStep(i, r)
    /\ UNCHANGED <<listening, disposed>>
    /\ UNCHANGED nonAgentVars

\* processLoop resumes after the 100 ms timer.
Wake(i) ==
    /\ UNCHANGED inputs
    /\ pc[i] = "sleep"
    /\ LoopTop(i, consecutiveMistakeCount, messages, statusEvents)
    /\ LoopStep(i)
    /\ UNCHANGED <<listening, disposed>>
    /\ UNCHANGED nonAgentVars

\* Agent.abort
AbortBody ==
    /\ isAborted' = TRUE
    /\ isRunning' = FALSE
    /\ statusEvents' = EmitStatus(statusEvents, "aborted")
    /\ UNCHANGED <<consecutiveMistakeCount, messages, pc>>

Abort ==
    /\ Input
    /\ AbortBody
    /\ abortedDuring' = [i \in Loops |-> abortedDuring[i] \/ InFlight(i)]
    /\ last' = Step("abort", "none", 0)
    /\ UNCHANGED <<listening, disposed>>
    /\ UNCHANGED nonAgentVars

\* sendMessage() that tests the abort flag instead of the running flag.
SendMessageBodyTestsAborted ==
    IF isAborted
    THEN /\ last' = Step("sendMessage", "NotRunning", 0)
         /\ UNCHANGED messages
    ELSE /\ messages' = Append(messages, "user")
         /\ last' = Step("sendMessage", "none", 0)

\* Agent.sendMessage
SendMessageBody ==
    IF ~isRunning
    THEN /\ last' = Step("sendMessage", "NotRunning", 0)
         /\ UNCHANGED messages
    ELSE /\ messages' = Append(messages, "user")
         /\ last' = Step("sendMessage", "none", 0)

SendMessage ==
    /\ Input
    /\ SendMessageBody
    /\ UNCHANGED <<isRunning, isAborted, consecutiveMistakeCount, statusEvents,
                   pc, listening, abortedDuring, disposed>>
    /\ UNCHANGED nonAgentVars

\* Agent.dispose
DisposeBody ==
    /\ isAborted' = TRUE
    /\ isRunning' = FALSE
    /\ listening' = FALSE
    /\ messages' = <<>>
    /\ UNCHANGED <<consecutiveMistakeCount, statusEvents, pc>>

Dispose ==
    /\ Input
    /\ DisposeBody
    /\ disposed' = TRUE
    /\ abortedDuring' = [i \in Loops |-> abortedDuring[i] \/ InFlight(i)]
    /\ last' = Step("dispose", "none", 0)
    /\ UNCHANGED nonAgentVars

\* EventEmitter.on: an owner attaches its observers (again).
Subscribe ==
    /\ Input
    /\ ~listening
    /\ listening' = TRUE
    /\ last' = Step("subscribe", "none", 0)
    /\ UNCHANGED <<isRunning, isAborted, consecutiveMistakeCount, messages,
                   statusEvents, pc, abortedDuring, disposed>>
    /\ UNCHANGED nonAgentVars

NextAgent ==
    \/ \E i \in Loops : Start(i)
    \/ \E i \in Loops : Enter(i)
    \/ \E i \in Loops : Guidance(i)
    \/ \E i \in Loops, r \in Responses : Respond(i, r)
    \/ \E i \in Loops : Wake(i)
    \/ Abort
    \/ SendMessage
    \/ Dispose
    \/ Subscribe

(***************************************************************************)
(* Properties of the Agent                                                 *)
(***************************************************************************)

NumInFlight == Cardinality({i \in Loops : InFlight(i)})

\* The status the observers saw last; idle before the first event.
LastStatus ==
    IF statusEvents = <<>> THEN "idle" ELSE statusEvents[Len(statusEvents)]

\* C1: a start() issued while an earlier start() has not yet returned fails
\* with AlreadyRunning and changes nothing: no message is appended and no
\* second invocation begins.
C1_StartWhileInFlightFails ==
    [][(last'.op = "start" /\ NumInFlight > 0)
         => /\ last'.err = "AlreadyRunning"
            /\ messages' = messages
            /\ pc' = pc]_vars

\* C2: at most one invocation of the loop is in flight at any time.
C2_OneLoopInFlight == NumInFlight <= 1

\* The state machine of the spec, read on the status events the code emits.
\* The code emits no 'running' and no 'completed' event, so those two states
\* are passed silently; a restart from stopped is allowed; an event that
\* repeats the last status is no change.
StatusSuccessors(s) ==
    CASE s = "idle" -> {"starting"}
      [] s = "starting" -> {"awaiting_guidance", "aborted", "stopped"}
      [] s = "awaiting_guidance" -> {"aborted", "stopped"}
      [] s = "aborted" -> {"stopped"}
      [] s = "stopped" -> {"starting"}
      [] OTHER -> {}

\* C3: every status change reported is a transition of the state machine
\* idle -> starting -> running -> {awaiting-guidance -> running | aborted |
\* completed} -> stopped.
C3_StatusChangesFollowMachine ==
    [][(Len(statusEvents') > Len(statusEvents) /\ LastStatus' # LastStatus)
         => LastStatus' \in StatusSuccessors(LastStatus)]_vars

\* Invocation i passes the while test of processLoop in this step.
BeginsIteration(i) ==
    /\ last'.op = "loop"
    /\ last'.loop = i
    /\ pc[i] # "guidance"
    /\ pc'[i] \in {"guidance", "request"}

\* C4: an invocation that was in flight when abort() was called begins no
\* further loop iteration, whatever is called afterwards.
C4_NoIterationAfterAbort ==
    [][\A i \in Loops : abortedDuring[i] => ~BeginsIteration(i)]_vars

\* C5: abort() on an aborted Task is a no-op: it changes neither flag, nor
\* the mistake counter, nor the message log, nor the invocations in flight,
\* and the observers are told of no further status change.
C5_SecondAbortIsNoOp ==
    [][(last'.op = "abort" /\ isAborted)
         => UNCHANGED <<isAborted, isRunning, consecutiveMistakeCount,
                        messages, pc, statusEvents>>]_vars

\* C5, for the fields alone: abort() on an aborted Task changes no field of
\* the Task and getStatus() stays aborted.
C5_SecondAbortChangesNoField ==
    [][(last'.op = "abort" /\ isAborted)
         => /\ UNCHANGED <<isAborted, isRunning, consecutiveMistakeCount,
                           messages, pc>>
            /\ GetStatus' = "aborted"]_vars

C6_WitnessRejected ==
    /\ last.op = "sendMessage"
    /\ last.pre = "aborted"
    /\ last.err = "NotRunning"

\* C7: after dispose() every start() and sendMessage() is rejected, the
\* message log stays empty and the observers receive no further status
\* event.
C7_DisposedIsUnusable ==
    [][disposed
         => /\ messages' = <<>>
            /\ statusEvents' = statusEvents
            /\ (last'.op \in {"start", "sendMessage"} => last'.err # "none")
       ]_vars

\* C7, for the iteration in flight alone: a Task that is disposed and has
\* not been started again keeps an empty message log.
C7_InFlightIterationAppendsNothing ==
    (disposed /\ last.op = "loop") => messages = <<>>

\* Invocation i receives response r in this step.
Receives(i, r) ==
    /\ last'.op = "loop"
    /\ last'.loop = i
    /\ last'.response = r

\* Invocation i resumes after handleConsecutiveMistakes in this step.
ResumesAfterGuidance(i) ==
    /\ last'.op = "loop"
    /\ last'.loop = i
    /\ pc[i] = "guidance"

\* Invocation i finds the counter at the limit at the top of an iteration.
ReachesLimit(i) ==
    /\ last'.op = "loop"
    /\ last'.loop = i
    /\ pc[i] # "guidance"
    /\ pc'[i] = "guidance"

\* C26: an iteration that finds the counter at the limit appends the
\* awaiting-guidance message, resets the counter to 0 and requests no model
\* output.
C26_LimitPausesForGuidance ==
    [][\A i \in Loops :
          /\ ReachesLimit(i)
                => /\ consecutiveMistakeCount' >= consecutiveMistakeLimit
                   /\ Len(messages') = Len(messages) + 1
                   /\ messages'[Len(messages')] = "assistant"
          /\ ResumesAfterGuidance(i)
                => /\ consecutiveMistakeCount' = 0
                   /\ pc'[i] # "request"
      ]_vars

\* C26 without the pause: the message is appended, the observers are told
\* awaiting_guidance and the counter is reset.
C26_LimitAppendsAndResets ==
    [][\A i \in Loops :
          /\ ReachesLimit(i)
                => /\ consecutiveMistakeCount' >= consecutiveMistakeLimit
                   /\ Len(messages') = Len(messages) + 1
                   /\ messages'[Len(messages')] = "assistant"
                   /\ listening => LastStatus' = "awaiting_guidance"
          /\ ResumesAfterGuidance(i) => consecutiveMistakeCount' = 0
      ]_vars

\* C27: an error raised in an iteration adds exactly one to the counter, is
\* passed to the observers as one error event, and the loop goes on to its
\* next iteration unless the Task has been aborted.
C27_ErrorCountsAndLoopContinues ==
    [][\A i \in Loops :
          Receives(i, "error")
             => /\ consecutiveMistakeCount' = consecutiveMistakeCount + 1
                /\ listening
                /\ last'.emits = <<"error">>
                /\ ~isAborted => pc'[i] \in {"guidance", "request"}
      ]_vars

\* C27 for a Task that is running and not aborted, observed or not.
C27_ErrorOfRunningTask ==
    [][\A i \in Loops :
          (Receives(i, "error") /\ isRunning /\ ~isAborted)
             => /\ consecutiveMistakeCount' = consecutiveMistakeCount + 1
                /\ pc'[i] \in {"guidance", "request"}
      ]_vars

\* C27 for a Task that has an observer and is running: the error adds one
\* to the counter, is emitted once and the next iteration begins.
C27_ErrorOfObservedRunningTask ==
    [][\A i \in Loops :
          (Receives(i, "error") /\ listening)
             => /\ consecutiveMistakeCount' = consecutiveMistakeCount + 1
                /\ last'.emits = <<"error">>
                /\ (isRunning /\ ~isAborted)
                      => pc'[i] \in {"guidance", "request"}
      ]_vars

\* C28: a response that carries the completion marker is appended as an
\* assistant message, reported as one completion, and ends the run: the
\* invocation leaves its loop, the Task is no longer running and the
\* invocation requests nothing more.
C28_CompletionEndsTheRun ==
    [][\A i \in Loops :
          Receives(i, "complete")
             => /\ messages' = Append(messages, "assistant")
                /\ last'.emits = <<"completion">>
                /\ pc'[i] = "none"
                /\ ~isRunning'
                /\ listening => LastStatus' = "stopped"
      ]_vars

\* A run of three messages has ended with a completion: the request, an
\* intermediate answer and the answer that carried the marker.
C28_Witness ==
    /\ last.op = "loop"
    /\ last.response = "complete"
    /\ messages = <<"user", "assistant", "assistant">>
    /\ pc[last.loop] = "none"
    /\ GetStatus = "idle"
    /\ LastStatus = "stopped"

\* Invocation i issues a model request in this step.
IssuesRequest(i) ==
    /\ last'.op = "loop"
    /\ last'.loop = i
    /\ pc'[i] = "request"

\* C38: the mistake counter is never below 0 nor above the limit, and a
\* model request is issued only while the counter is below the limit.
C38_CounterWithinLimit ==
    [][/\ consecutiveMistakeCount' \in 0..consecutiveMistakeLimit
       /\ \A i \in Loops :
             IssuesRequest(i)
                => consecutiveMistakeCount' < consecutiveMistakeLimit
      ]_vars

\* C38, the second half alone: a model request is issued only while the
\* counter is below the limit.
C38_RequestIssuedBelowLimit ==
    [][\A i \in Loops :
          IssuesRequest(i)
             => consecutiveMistakeCount' < consecutiveMistakeLimit
      ]_vars

(***************************************************************************)
(* Part 2: CheckpointManager and the workspace tree                        *)
(***************************************************************************)

\* Bounds of the model: the checkpoints one manager creates, and the
\* operations made on one workspace.
MaxCheckpoints == 2
MaxCpOps == 5

\* A name is its sequence of characters, a path its sequence of names
\* (relative to the workspace root, which is the empty path).
NameA == <<"a">>
NameB == <<"b">>
NameEnv == <<".", "e", "n", "v">>

Paths == {<<NameA>>, <<NameA, NameB>>, <<NameB>>, <<NameEnv>>}

\* The order in which fs.readdir lists the tree, depth first.
ScanOrder == << <<NameEnv>>, <<NameA>>, <<NameA, NameB>>, <<NameB>> >>

Contents == {"1", "2"}

CheckpointIds == 1..MaxCheckpoints

\* crypto.createHash('sha256').update(content).digest('hex')
Hash(content) == <<"sha256", content>>

\* The names the exact patterns of shouldSkip match.
SkipNames ==
    { <<".", "g", "i", "t">>,
      <<"n", "o", "d", "e", "_", "m", "o", "d", "u", "l", "e", "s">>,
      <<".", "m", "o", "m", "i", "n", "a", "i">>,
      <<"d", "i", "s", "t">>,
      <<"b", "u", "i", "l", "d">>,
      <<"c", "o", "v", "e", "r", "a", "g", "e">>,
      <<".", "n", "e", "x", "t">>,
      <<".", "n", "u", "x", "t">>,
      <<".", "v", "s", "c", "o", "d", "e">>,
      <<".", "i", "d", "e", "a">> }

\* CheckpointManager.shouldSkip: an exact name, or /^\./ (hidden).
ShouldSkip(name) == name \in SkipNames \/ (Len(name) > 0 /\ name[1] = ".")

\* ---- the file system ---------------------------------------------------
\* A node of the tree is "absent", "dir", or the content of a file.

IsFile(w, p) == w[p] \notin {"absent", "dir"}

Ancestors(p) == {SubSeq(p, 1, k) : k \in 1..(Len(p) - 1)}

Parent(p) == SubSeq(p, 1, Len(p) - 1)

\* Trees that exist: whatever is present lies in directories.
ValidTree(w) ==
    \A p \in Paths : w[p] # "absent" => \A q \in Ancestors(p) : w[q] = "dir"

\* fs.mkdir(d, {recursive: true}): fails when d or an ancestor is a file.
MkdirP(w, d) ==
    LET made == Ancestors(d) \cup (IF d = <<>> THEN {} ELSE {d})
    IN  IF \E q \in made : IsFile(w, q)
        THEN [ok |-> FALSE, w |-> w]
        ELSE [ok |-> TRUE,
              w |-> [p \in Paths |-> IF p \in made THEN "dir" ELSE w[p]]]

\* fs.writeFile(p, content): fails when p is a directory (EISDIR) or its
\* parent is no directory.
FsWriteFile(w, p, content) ==
    IF w[p] = "dir" \/ \E q \in Ancestors(p) : w[q] # "dir"
    THEN [ok |-> FALSE, w |-> w]
    ELSE [ok |-> TRUE, w |-> [w EXCEPT ![p] = content]]

\* fs.unlink(p): removes a file, fails on anything else.
FsUnlink(w, p) ==
    IF IsFile(w, p)
    THEN [ok |-> TRUE, w |-> [w EXCEPT ![p] = "absent"]]
    ELSE [ok |-> FALSE, w |-> w]

\* rm -rf p, run by the shell tool.
RemoveTree(w, p) ==
    [q \in Paths |-> IF q = p \/ p \in Ancestors(q) THEN "absent" ELSE w[q]]

\* ---- CheckpointManager -------------------------------------------------

FileEntry(w, p) == [path |-> p, content |-> w[p], hash |-> Hash(w[p])]

\* scanDirectory skips an entry by its name, at every level.
Scanned(w, p) == IsFile(w, p) /\ \A k \in 1..Len(p) : ~ShouldSkip(p[k])

\* CheckpointManager.scanWorkspaceFiles
ScanWorkspaceFiles(w) ==
    LET found == SelectSeq(ScanOrder, LAMBDA p : Scanned(w, p))
    IN  [k \in 1..Len(found) |-> FileEntry(w, found[k])]

PathsOf(files) == {files[k].path : k \in 1..Len(files)}

\* new Map(files.map(f => [f.path, f])).get(p): the last entry of that path.
MapGet(files, p) ==
    files[CHOOSE k \in 1..Len(files) :
            /\ files[k].path = p
            /\ \A j \in (k + 1)..Len(files) : files[j].path # p]

Undefined == "undefined"

EmptyDiff == [added |-> <<>>, modified |-> <<>>, deleted |-> <<>>,
              details |-> <<>>]

\* The entry the first loop of calculateDiff makes for file2, if any.
DiffEntry2(files1, file2) ==
    IF file2.path \notin PathsOf(files1)
    THEN [path |-> file2.path, type |-> "added",
          oldContent |-> Undefined, newContent |-> file2.content]
    ELSE IF MapGet(files1, file2.path).hash # file2.hash
    THEN [path |-> file2.path, type |-> "modified",
          oldContent |-> MapGet(files1, file2.path).content,
          newContent |-> file2.content]
    ELSE [path |-> file2.path, type |-> "same",
          oldContent |-> Undefined, newContent |-> Undefined]

DiffEntry1(files2, file1) ==
    IF file1.path \notin PathsOf(files2)
    THEN [path |-> file1.path, type |-> "deleted",
          oldContent |-> file1.content, newContent |-> Undefined]
    ELSE [path |-> file1.path, type |-> "same",
          oldContent |-> Undefined, newContent |-> Undefined]

PathsOfType(entries, type) ==
    LET sel == SelectSeq(entries, LAMBDA e : e.type = type)
    IN  [k \in 1..Len(sel) |-> sel[k].path]

\* calculateDiff whose second loop tests files1 instead of files2, so that
\* it finds nothing deleted.
CalculateDiffTestsFiles1(files1, files2) ==
    LET e2 == [k \in 1..Len(files2) |-> DiffEntry2(files1, files2[k])]
    IN  [added |-> PathsOfType(e2, "added"),
         modified |-> PathsOfType(e2, "modified"),
         deleted |-> <<>>,
         details |-> SelectSeq(e2, LAMBDA e : e.type # "same")]

\* calculateDiff that compares the content lengths instead of the hashes.
CalculateDiffByLength(files1, files2) ==
    LET e2 == [k \in 1..Len(files2) |->
                 IF files2[k].path \notin PathsOf(files1)
                 THEN [path |-> files2[k].path, type |-> "added",
                       oldContent |-> Undefined,
                       newContent |-> files2[k].content]
                 ELSE [path |-> files2[k].path, type |-> "same",
                       oldContent |-> Undefined, newContent |-> Undefined]]
        e1 == [k \in 1..Len(files1) |-> DiffEntry1(files2, files1[k])]
    IN  [added |-> PathsOfType(e2, "added"),
         modified |-> <<>>,
         deleted |-> PathsOfType(e1, "deleted"),
         details |-> SelectSeq(e2, LAMBDA e : e.type # "same")
                       \o SelectSeq(e1, LAMBDA e : e.type # "same")]

\* CheckpointManager.calculateDiff
CalculateDiff(files1, files2) ==
    LET e2 == [k \in 1..Len(files2) |-> DiffEntry2(files1, files2[k])]
        e1 == [k \in 1..Len(files1) |-> DiffEntry1(files2, files1[k])]
    IN  [added |-> PathsOfType(e2, "added"),
         modified |-> PathsOfType(e2, "modified"),
         deleted |-> PathsOfType(e1, "deleted"),
         details |-> SelectSeq(e2, LAMBDA e : e.type # "same")
                       \o SelectSeq(e1, LAMBDA e : e.type # "same")]

\* The first loop of restoreCheckpoint from entry k on: mkdir of the
\* directory, then writeFile; the first failure throws.
RECURSIVE RestoreWrites(_, _, _)
RestoreWrites(w, files, k) ==
    IF k > Len(files)
    THEN [ok |-> TRUE, w |-> w]
    ELSE LET dir == MkdirP(w, Parent(files[k].path))
             wr == FsWriteFile(dir.w, files[k].path, files[k].content)
         IN  IF ~dir.ok THEN [ok |-> FALSE, w |-> w]
             ELSE IF ~wr.ok THEN [ok |-> FALSE, w |-> dir.w]
             ELSE RestoreWrites(wr.w, files, k + 1)

\* The second loop of restoreCheckpoint from entry k of the scan made at
\* the start: unlink what the checkpoint does not hold, errors ignored.
RECURSIVE RestoreRemoves(_, _, _, _)
RestoreRemoves(w, current, files, k) ==
    IF k > Len(current)
    THEN w
    ELSE IF current[k].path \in PathsOf(files)
    THEN RestoreRemoves(w, current, files, k + 1)
    ELSE RestoreRemoves(FsUnlink(w, current[k].path).w, current, files, k + 1)

\* restoreCheckpoint after the lookup: the tree it leaves and whether it
\* returned or threw.
RestoreFiles(w, files) ==
    LET current == ScanWorkspaceFiles(w)
        written == RestoreWrites(w, files, 1)
    IN  IF written.ok
        THEN [ok |-> TRUE, w |-> RestoreRemoves(written.w, current, files, 1)]
        ELSE written

CpStep(op, err, a, b, diff) ==
    [op |-> op, err |-> err, a |-> a, b |-> b, diff |-> diff]

CpNone == CpStep("none", "none", 0, 0, EmptyDiff)

\* One more operation on the workspace.
CpOp == cpOps < MaxCpOps /\ cpOps' = cpOps + 1

\* The Map of a manager that has created nothing.
NoCheckpoints == [id \in {} |-> <<>>]

\* An operation that is no deletion: it emits no deletion event and leaves
\* the clock, the checkpoint files and the subtasks alone.
StoreKeeps ==
    /\ cpEvents' = <<>>
    /\ UNCHANGED <<now, cpDisk, subtasks, stCreated>>

\* ToolExecutor.writeFile
ToolWriteFile(p, content) ==
    LET dir == MkdirP(ws, Parent(p))
        wr == FsWriteFile(dir.w, p, content)
    IN  /\ CpOp
        /\ ws' = IF ~dir.ok THEN ws ELSE wr.w
        /\ cpLast' = CpStep("write", IF dir.ok /\ wr.ok THEN "none" ELSE "fs",
                            0, 0, EmptyDiff)
        /\ UNCHANGED <<checkpoints, cpTimes, cpCreated>>
        /\ StoreKeeps
        /\ UNCHANGED <<agentVars, gateVars, toolVars, detVars, taskVars,
                       lateVars>>

\* ToolExecutor.executeCommand running rm -rf on a path of the workspace.
ShellRemove(p) ==
    /\ CpOp
    /\ ws[p] # "absent"
    /\ ws' = RemoveTree(ws, p)
    /\ cpLast' = CpStep("remove", "none", 0, 0, EmptyDiff)
    /\ UNCHANGED <<checkpoints, cpTimes, cpCreated>>
    /\ StoreKeeps
    /\ UNCHANGED <<agentVars, gateVars, toolVars, detVars, taskVars, lateVars>>

\* The id that the last createCheckpoint used, if there was one.
LastCheckpointId == IF cpCreated = 0 THEN cpCreated + 1 ELSE cpCreated

\* crypto.randomUUID(): an id never issued before.
NewCheckpointId == cpCreated + 1

\* CheckpointManager.createCheckpoint
CreateCheckpoint ==
    LET id == NewCheckpointId
    IN  /\ CpOp
        /\ cpCreated < MaxCheckpoints
        /\ cpCreated' = id
        /\ checkpoints' = [i \in DOMAIN checkpoints \cup {id} |->
                              IF i = id THEN ScanWorkspaceFiles(ws)
                              ELSE checkpoints[i]]
        /\ cpTimes' = [i \in DOMAIN checkpoints \cup {id} |->
                          IF i = id THEN now ELSE cpTimes[i]]
        /\ cpDisk' = cpDisk \cup {id}
        /\ cpEvents' = <<>>
        /\ cpLast' = CpStep("create", "none", id, 0, EmptyDiff)
        /\ UNCHANGED <<ws, now, subtasks, stCreated>>
        /\ UNCHANGED <<agentVars, gateVars, toolVars, detVars, taskVars,
                       lateVars>>

\* CheckpointManager.restoreCheckpoint
RestoreCheckpoint(id) ==
    /\ CpOp
    /\ IF id \notin DOMAIN checkpoints
       THEN /\ cpLast' = CpStep("restore", "NotFound", id, 0, EmptyDiff)
            /\ UNCHANGED ws
       ELSE LET r == RestoreFiles(ws, checkpoints[id])
            IN  /\ ws' = r.w
                /\ cpLast' = CpStep("restore", IF r.ok THEN "none" ELSE "fs",
                                    id, 0, EmptyDiff)
    /\ UNCHANGED <<checkpoints, cpTimes, cpCreated>>
    /\ StoreKeeps
    /\ UNCHANGED <<agentVars, gateVars, toolVars, detVars, taskVars, lateVars>>

\* CheckpointManager.compareCheckpoints
CompareCheckpoints(id1, id2) ==
    /\ CpOp
    /\ IF id1 \notin DOMAIN checkpoints \/ id2 \notin DOMAIN checkpoints
       THEN cpLast' = CpStep("compare", "NotFound", id1, id2, EmptyDiff)
       ELSE cpLast' = CpStep("compare", "none", id1, id2,
                             CalculateDiff(checkpoints[id1], checkpoints[id2]))
    /\ UNCHANGED <<ws, checkpoints, cpTimes, cpCreated>>
    /\ StoreKeeps
    /\ UNCHANGED <<agentVars, gateVars, toolVars, detVars, taskVars, lateVars>>

\* CheckpointManager.compareWithCurrent
CompareWithCurrent(id) ==
    /\ CpOp
    /\ IF id \notin DOMAIN checkpoints
       THEN cpLast' = CpStep("compareWithCurrent", "NotFound", id, 0, EmptyDiff)
       ELSE cpLast' = CpStep("compareWithCurrent", "none", id, 0,
                             CalculateDiff(checkpoints[id],
                                           ScanWorkspaceFiles(ws)))
    /\ UNCHANGED <<ws, checkpoints, cpTimes, cpCreated>>
    /\ StoreKeeps
    /\ UNCHANGED <<agentVars, gateVars, toolVars, detVars, taskVars, lateVars>>

NextCheckpoint ==
    \/ \E p \in Paths, content \in Contents : ToolWriteFile(p, content)
    \/ \E p \in Paths : ShellRemove(p)
    \/ CreateCheckpoint
    \/ \E id \in CheckpointIds : RestoreCheckpoint(id)
    \/ \E id1, id2 \in CheckpointIds : CompareCheckpoints(id1, id2)
    \/ \E id \in CheckpointIds : CompareWithCurrent(id)

(***************************************************************************)
(* Properties of the CheckpointManager                                     *)
(***************************************************************************)

ToSet(seq) == {seq[k] : k \in 1..Len(seq)}

\* The (path, hash) pairs of a file list.
Hashes(files) == {<<files[k].path, files[k].hash>> : k \in 1..Len(files)}

\* C8: after restore(C), whatever was written, added or removed since C was
\* created, the scanned files of the workspace and their hashes are those
\* of C.
C8_RestoreGivesSnapshot ==
    (cpLast.op = "restore" /\ cpLast.err # "NotFound")
        => Hashes(ScanWorkspaceFiles(ws)) = Hashes(checkpoints[cpLast.a])

\* C8, for the calls of restore that return: a restore that does not throw
\* leaves exactly the files of C.
C8_RestoreThatReturnsGivesSnapshot ==
    (cpLast.op = "restore" /\ cpLast.err = "none")
        => Hashes(ScanWorkspaceFiles(ws)) = Hashes(checkpoints[cpLast.a])

\* C9: diff(A,A) is empty, and diff(A,B) has the added and deleted sets of
\* diff(B,A) swapped and the same modified set.
C9_DiffSwapsWithItsArguments ==
    (cpLast.op = "compare" /\ cpLast.err = "none")
        => LET d == cpLast.diff
               r == CalculateDiff(checkpoints[cpLast.b], checkpoints[cpLast.a])
           IN  /\ ToSet(d.added) = ToSet(r.deleted)
               /\ ToSet(d.deleted) = ToSet(r.added)
               /\ ToSet(d.modified) = ToSet(r.modified)
               /\ cpLast.a = cpLast.b => d = EmptyDiff

\* Two checkpoints were compared of which the second adds one file and
\* modifies another one.
C9_Witness ==
    /\ cpLast.op = "compare"
    /\ cpLast.err = "none"
    /\ cpLast.a # cpLast.b
    /\ cpLast.diff.added # <<>>
    /\ cpLast.diff.modified # <<>>
    /\ cpLast.diff.deleted = <<>>

\* The second file list of the comparison just made.
ComparedWith ==
    IF cpLast.op = "compare"
    THEN checkpoints[cpLast.b]
    ELSE ScanWorkspaceFiles(ws)

EntryOf(files, p) == CHOOSE f \in ToSet(files) : f.path = p

NoDuplicates(seq) == Cardinality(ToSet(seq)) = Len(seq)

\* The details hold exactly one entry for p, of this type and contents.
OneDetail(d, p, type, old, new) ==
    /\ Cardinality({k \in 1..Len(d.details) : d.details[k].path = p}) = 1
    /\ \E k \in 1..Len(d.details) :
          d.details[k] = [path |-> p, type |-> type,
                          oldContent |-> old, newContent |-> new]

\* C10: a diff lists a path as added iff only the second list holds it, as
\* deleted iff only the first does, as modified iff both do with different
\* hashes; the lists are disjoint and each listed path has one detail entry
\* with its old and new content.
C10_DiffClassifiesByHash ==
    (cpLast.op \in {"compare", "compareWithCurrent"} /\ cpLast.err = "none")
        => LET f1 == checkpoints[cpLast.a]
               f2 == ComparedWith
               d == cpLast.diff
           IN  /\ NoDuplicates(d.added \o d.modified \o d.deleted)
               /\ Len(d.details) = Len(d.added) + Len(d.modified) + Len(d.deleted)
               /\ \A p \in Paths :
                    /\ p \in ToSet(d.added)
                         <=> (p \notin PathsOf(f1) /\ p \in PathsOf(f2))
                    /\ p \in ToSet(d.deleted)
                         <=> (p \in PathsOf(f1) /\ p \notin PathsOf(f2))
                    /\ p \in ToSet(d.modified)
                         <=> /\ p \in PathsOf(f1)
                             /\ p \in PathsOf(f2)
                             /\ EntryOf(f1, p).hash # EntryOf(f2, p).hash
                    /\ p \in ToSet(d.added)
                         => OneDetail(d, p, "added", Undefined,
                                      EntryOf(f2, p).content)
                    /\ p \in ToSet(d.deleted)
                         => OneDetail(d, p, "deleted", EntryOf(f1, p).content,
                                      Undefined)
                    /\ p \in ToSet(d.modified)
                         => OneDetail(d, p, "modified", EntryOf(f1, p).content,
                                      EntryOf(f2, p).content)

\* The scenario of the spec: a holds "1" in the checkpoint; a is rewritten
\* to "2" and b is added; the checkpoint is compared with the current tree.
C10_Witness ==
    /\ cpLast.op = "compareWithCurrent"
    /\ cpLast.err = "none"
    /\ <<NameA>> \in PathsOf(checkpoints[cpLast.a])
    /\ EntryOf(checkpoints[cpLast.a], <<NameA>>).content = "1"
    /\ ws[<<NameA>>] = "2"
    /\ cpLast.diff.modified = << <<NameA>> >>
    /\ cpLast.diff.added = << <<NameB>> >>
    /\ cpLast.diff.deleted = <<>>

(***************************************************************************)
(* Part 3: the stores of one Task: deleting checkpoints, and the subtasks  *)
(***************************************************************************)

\* A Task starts at most this many subtasks.
MaxSubtasks == 2

SubtaskIds == 1..MaxSubtasks

\* The values of maxAge, in ticks of the clock.
MaxAges == {0, 1}

Without(f, id) == [i \in DOMAIN f \ {id} |-> f[i]]

Age(times, id) == now - times[id]

\* The state of the store inside one operation.
StoreOf(cps, times, disk, events) ==
    [cps |-> cps, times |-> times, disk |-> disk, events |-> events]

\* deleteCheckpoint after its lookup: fs.unlink of <id>.json, then
\* checkpoints.delete and 'checkpoint_deleted'; when unlink fails,
\* 'checkpoint_error' and the error is thrown again.
DeleteKnown(st, id) ==
    IF id \in st.disk
    THEN [ok |-> TRUE,
          st |-> StoreOf(Without(st.cps, id), Without(st.times, id),
                         st.disk \ {id},
                         Append(st.events, <<"checkpoint_deleted", id>>))]
    ELSE [ok |-> FALSE,
          st |-> StoreOf(st.cps, st.times, st.disk,
                         Append(st.events, <<"checkpoint_error", id>>))]

\* The second loop of cleanup from entry k on: the first deletion that
\* throws ends it.
RECURSIVE CleanupDeletes(_, _, _)
CleanupDeletes(st, ids, k) ==
    IF k > Len(ids)
    THEN [ok |-> TRUE, st |-> st]
    ELSE LET d == DeleteKnown(st, ids[k])
         IN  IF d.ok THEN CleanupDeletes(d.st, ids, k + 1) ELSE d

\* The Map lists its checkpoints in the order they were set.
InsertionOrder == [k \in 1..cpCreated |-> k]

\* The first loop of cleanup: checkpointsToDelete.
CheckpointsToDelete(maxAge) ==
    SelectSeq(InsertionOrder,
              LAMBDA id : id \in DOMAIN checkpoints
                          /\ Age(cpTimes, id) > maxAge)

StoreNow == StoreOf(checkpoints, cpTimes, cpDisk, <<>>)

SetStore(st) ==
    /\ checkpoints' = st.cps
    /\ cpTimes' = st.times
    /\ cpDisk' = st.disk
    /\ cpEvents' = st.events

\* CheckpointManager.deleteCheckpoint
DeleteCheckpoint(id) ==
    /\ CpOp
    /\ IF id \notin DOMAIN checkpoints
       THEN /\ cpLast' = CpStep("delete", "NotFound", id, 0, EmptyDiff)
            /\ cpEvents' = <<>>
            /\ UNCHANGED <<checkpoints, cpTimes, cpDisk>>
       ELSE LET d == DeleteKnown(StoreNow, id)
            IN  /\ SetStore(d.st)
                /\ cpLast' = CpStep("delete", IF d.ok THEN "none" ELSE "fs",
                                    id, 0, EmptyDiff)
    /\ UNCHANGED <<ws, now, cpCreated, subtasks, stCreated>>
    /\ UNCHANGED <<agentVars, gateVars, toolVars, detVars, taskVars, lateVars>>

\* CheckpointManager.cleanup
Cleanup(maxAge) ==
    LET ids == CheckpointsToDelete(maxAge)
        d == CleanupDeletes(StoreNow, ids, 1)
    IN  /\ CpOp
        /\ IF d.ok
           THEN SetStore([d.st EXCEPT !.events =
                            Append(@, <<"cleanup_completed", Len(ids)>>)])
           ELSE SetStore(d.st)
        /\ cpLast' = CpStep("cleanup", IF d.ok THEN "none" ELSE "fs",
                            maxAge, Len(ids), EmptyDiff)
        /\ UNCHANGED <<ws, now, cpCreated, subtasks, stCreated>>
        /\ UNCHANGED <<agentVars, gateVars, toolVars, detVars, taskVars,
                       lateVars>>

\* ToolExecutor.executeCommand running rm on one file of checkpointsDir,
\* which lies in the workspace.
ShellRemoveCheckpointFile(id) ==
    /\ CpOp
    /\ id \in cpDisk
    /\ cpDisk' = cpDisk \ {id}
    /\ cpEvents' = <<>>
    /\ cpLast' = CpStep("removeFile", "none", id, 0, EmptyDiff)
    /\ UNCHANGED <<ws, checkpoints, cpTimes, now, cpCreated, subtasks,
                   stCreated>>
    /\ UNCHANGED <<agentVars, gateVars, toolVars, detVars, taskVars, lateVars>>

\* Time passes between two operations.
Tick ==
    /\ CpOp
    /\ now' = now + 1
    /\ cpEvents' = <<>>
    /\ cpLast' = CpStep("tick", "none", 0, 0, EmptyDiff)
    /\ UNCHANGED <<ws, checkpoints, cpTimes, cpDisk, cpCreated, subtasks,
                   stCreated>>
    /\ UNCHANGED <<agentVars, gateVars, toolVars, detVars, taskVars, lateVars>>

\* ---- SubtaskManager ------------------------------------------------------
\* A child is "starting" while its start() runs its loop and "started"
\* once start() has returned.

\* A step of the SubtaskManager: it leaves the checkpoints alone.
SubtaskStep(op, err, id) ==
    /\ CpOp
    /\ cpLast' = CpStep(op, err, id, 0, EmptyDiff)
    /\ cpEvents' = <<>>
    /\ UNCHANGED <<ws, checkpoints, cpTimes, cpDisk, cpCreated, now>>
    /\ UNCHANGED <<agentVars, gateVars, toolVars, detVars, taskVars, lateVars>>

\* SubtaskManager.startSubtask up to its await of subtask.start().
StartSubtask ==
    LET id == stCreated + 1
    IN  /\ stCreated < MaxSubtasks
        /\ stCreated' = id
        /\ subtasks' = [i \in DOMAIN subtasks \cup {id} |->
                           IF i = id THEN "starting" ELSE subtasks[i]]
        /\ SubtaskStep("startSubtask", "none", id)

\* startSubtask after subtask.start() has returned: 'subtask_started'.
SubtaskStarted(id) ==
    /\ id \in DOMAIN subtasks
    /\ subtasks[id] = "starting"
    /\ subtasks' = [subtasks EXCEPT ![id] = "started"]
    /\ SubtaskStep("subtaskStarted", "none", id)
    /\ UNCHANGED stCreated

\* SubtaskManager.waitForSubtask up to the promise it returns.
WaitForSubtask(id) ==
    /\ SubtaskStep("waitForSubtask",
                   IF id \in DOMAIN subtasks THEN "none" ELSE "NotFound", id)
    /\ UNCHANGED <<subtasks, stCreated>>

\* SubtaskManager.completeSubtask
CompleteSubtask(id) ==
    /\ IF id \in DOMAIN subtasks
       THEN /\ subtasks' = Without(subtasks, id)
            /\ SubtaskStep("completeSubtask", "none", id)
       ELSE /\ UNCHANGED subtasks
            /\ SubtaskStep("completeSubtask", "NotFound", id)
    /\ UNCHANGED stCreated

\* SubtaskManager.abortSubtask: an unknown id is passed over in silence.
AbortSubtask(id) ==
    /\ subtasks' = IF id \in DOMAIN subtasks
                   THEN Without(subtasks, id)
                   ELSE subtasks
    /\ SubtaskStep("abortSubtask", "none", id)
    /\ UNCHANGED stCreated

NextStore ==
    \/ \E content \in Contents : ToolWriteFile(<<NameA>>, content)
    \/ CreateCheckpoint
    \/ \E id \in CheckpointIds : RestoreCheckpoint(id)
    \/ \E id1, id2 \in CheckpointIds : CompareCheckpoints(id1, id2)
    \/ \E id \in CheckpointIds : CompareWithCurrent(id)
    \/ \E id \in CheckpointIds : DeleteCheckpoint(id)
    \/ \E maxAge \in MaxAges : Cleanup(maxAge)
    \/ \E id \in CheckpointIds : ShellRemoveCheckpointFile(id)
    \/ Tick
    \/ StartSubtask
    \/ \E id \in SubtaskIds : SubtaskStarted(id)
    \/ \E id \in SubtaskIds : WaitForSubtask(id)
    \/ \E id \in SubtaskIds : CompleteSubtask(id)
    \/ \E id \in SubtaskIds : AbortSubtask(id)

(***************************************************************************)
(* Properties of the stores                                                *)
(***************************************************************************)

\* C11: when cleanup(maxAge) has finished, with or without an error of one
\* deletion, no checkpoint older than maxAge is left in the store.
C11_CleanupLeavesNoOldCheckpoint ==
    cpLast.op = "cleanup"
        => \A id \in DOMAIN checkpoints : Age(cpTimes, id) <= cpLast.a

\* C11, for the calls of cleanup that return: exactly the checkpoints
\* older than maxAge are deleted, with one 'checkpoint_deleted' each.
C11_CleanupThatReturnsDeletesTheOld ==
    [][(cpLast'.op = "cleanup" /\ cpLast'.err = "none")
          => LET old == {id \in DOMAIN checkpoints :
                           Age(cpTimes, id) > cpLast'.a}
             IN  /\ DOMAIN checkpoints' = DOMAIN checkpoints \ old
                 /\ \A id \in DOMAIN checkpoints' :
                       checkpoints'[id] = checkpoints[id]
                 /\ \A id \in CheckpointIds :
                       Cardinality({k \in 1..Len(cpEvents') :
                                      cpEvents'[k] = <<"checkpoint_deleted", id>>})
                         = IF id \in old THEN 1 ELSE 0]_vars

\* The operations that take the id of a checkpoint, and of a subtask.
CheckpointIdOps == {"restore", "compare", "compareWithCurrent", "delete"}
SubtaskIdOps == {"waitForSubtask", "abortSubtask"}

\* The step made is a call with an id the store does not hold.
UnknownId(step) ==
    \/ /\ step.op \in CheckpointIdOps
       /\ \/ step.a \notin DOMAIN checkpoints
          \/ step.op = "compare" /\ step.b \notin DOMAIN checkpoints
    \/ /\ step.op \in SubtaskIdOps
       /\ step.a \notin DOMAIN subtasks

\* C12: an operation called with an unknown checkpoint id or subtask id
\* fails NotFound and changes neither the workspace files, nor the
\* checkpoint set, nor the subtask set.
C12_UnknownIdFailsNotFound ==
    [][(cpOps' # cpOps /\ UnknownId(cpLast'))
          => /\ cpLast'.err = "NotFound"
             /\ UNCHANGED <<ws, checkpoints, cpTimes, cpDisk, subtasks>>]_vars

\* C12, without abortSubtask: the other operations fail NotFound on an
\* unknown id and change no state.
C12_UnknownIdFailsNotFoundButAbort ==
    [][(cpOps' # cpOps /\ UnknownId(cpLast')
            /\ cpLast'.op # "abortSubtask")
          => /\ cpLast'.err = "NotFound"
             /\ UNCHANGED <<ws, checkpoints, cpTimes, cpDisk, subtasks>>]_vars

\* C12: abortSubtask of an unknown id changes no state.
C12_AbortOfUnknownChangesNothing ==
    [][(cpOps' # cpOps /\ UnknownId(cpLast')
            /\ cpLast'.op = "abortSubtask")
          => UNCHANGED <<ws, checkpoints, cpTimes, cpDisk, subtasks>>]_vars

\* The operations of the CheckpointManager.
CheckpointOps ==
    {"create", "restore", "compare", "compareWithCurrent", "delete",
     "cleanup"}

\* C36: no operation of the CheckpointManager changes the record of a
\* checkpoint it holds; createCheckpoint uses an id that no checkpoint
\* holds, in the Map or on disk; and a checkpoint leaves the Map or the
\* disk only in deleteCheckpoint of its id or in a cleanup it is too old
\* for.
C36_CheckpointsAreNeverEdited ==
    [][/\ \A id \in DOMAIN checkpoints :
             IF id \in DOMAIN checkpoints'
             THEN /\ checkpoints'[id] = checkpoints[id]
                  /\ cpTimes'[id] = cpTimes[id]
             ELSE \/ cpLast'.op = "delete" /\ cpLast'.a = id
                  \/ cpLast'.op = "cleanup" /\ Age(cpTimes, id) > cpLast'.a
       /\ (cpOps' # cpOps /\ cpLast'.op \in CheckpointOps)
             => \A id \in cpDisk \ cpDisk' :
                   \/ cpLast'.op = "delete" /\ cpLast'.a = id
                   \/ cpLast'.op = "cleanup" /\ Age(cpTimes, id) > cpLast'.a
       /\ (cpOps' # cpOps /\ cpLast'.op = "create")
             => /\ cpLast'.a \notin DOMAIN checkpoints
                /\ cpLast'.a \notin cpDisk
                /\ DOMAIN checkpoints' = DOMAIN checkpoints \cup {cpLast'.a}
                /\ checkpoints'[cpLast'.a] = ScanWorkspaceFiles(ws)
      ]_vars

\* Two checkpoints were created, the file a was written after the second
\* and a cleanup has deleted the first: the second is held with the record
\* it was given, which is not the state of the workspace.
C36_Witness ==
    /\ cpLast.op = "cleanup"
    /\ cpLast.err = "none"
    /\ cpLast.b = 1
    /\ cpCreated = 2
    /\ DOMAIN checkpoints = {2}
    /\ cpDisk = {2}
    /\ checkpoints[2] # ScanWorkspaceFiles(ws)

(***************************************************************************)
(* Part 4: AutoApprovalHandler                                             *)
(***************************************************************************)

\* Calls made on one gate.
MaxGateCalls == 3

\* AutoApprovalHandler.maxHistorySize
maxHistorySize == 1000

\* The time window used when the settings give none (or 0).
DefaultTimeWindow == 3600000

\* ---- strings and regular expressions -----------------------------------
\* A string is the sequence of its characters.

UpperCase == <<"A", "B", "C", "D", "E", "F", "G", "H", "I", "J", "K", "L", "M",
               "N", "O", "P", "Q", "R", "S", "T", "U", "V", "W", "X", "Y", "Z">>
LowerCase == <<"a", "b", "c", "d", "e", "f", "g", "h", "i", "j", "k", "l", "m",
               "n", "o", "p", "q", "r", "s", "t", "u", "v", "w", "x", "y", "z">>

\* The character as the flag i of a RegExp compares it.
ToLower(c) ==
    IF \E k \in 1..26 : UpperCase[k] = c
    THEN LowerCase[CHOOSE k \in 1..26 : UpperCase[k] = c]
    ELSE c

\* \s
WhiteSpace == {" ", "\t", "\n"}

\* The elements of a pattern: one character of a set, one or more of them
\* (+), and any characters but a newline (.*).
One(cs) == [kind |-> "one", cs |-> cs, neg |-> FALSE]
Plus(cs) == [kind |-> "plus", cs |-> cs, neg |-> FALSE]
AnyStar == [kind |-> "star", cs |-> {"\n"}, neg |-> TRUE]
Lit(s) == [k \in 1..Len(s) |-> One({s[k]})]

RegExp(elems, ignoreCase, anchored) ==
    [elems |-> elems, ignoreCase |-> ignoreCase, anchored |-> anchored]

Accepts(re, e, c) ==
    IF re.ignoreCase
    THEN (ToLower(c) \in {ToLower(x) : x \in e.cs}) # e.neg
    ELSE (c \in e.cs) # e.neg

\* The elements of re from the k-th on match s from its i-th character on.
RECURSIVE MatchFrom(_, _, _, _)
MatchFrom(re, k, s, i) ==
    IF k > Len(re.elems)
    THEN TRUE
    ELSE LET e == re.elems[k]
             here == i <= Len(s) /\ Accepts(re, e, s[i])
         IN  CASE e.kind = "one" -> here /\ MatchFrom(re, k + 1, s, i + 1)
               [] e.kind = "plus" ->
                    here /\ (\/ MatchFrom(re, k + 1, s, i + 1)
                             \/ MatchFrom(re, k, s, i + 1))
               [] e.kind = "star" ->
                    \/ MatchFrom(re, k + 1, s, i)
                    \/ here /\ MatchFrom(re, k, s, i + 1)

\* RegExp.prototype.test
Test(re, s) ==
    \E i \in (IF re.anchored THEN {1} ELSE 1..(Len(s) + 1)) :
        MatchFrom(re, 1, s, i)

\* s.split('_')[0]
SplitFirst(s) ==
    IF \E k \in 1..Len(s) : s[k] = "_"
    THEN SubSeq(s, 1, (CHOOSE k \in 1..Len(s) :
                          s[k] = "_" /\ \A j \in 1..(k - 1) : s[j] # "_") - 1)
    ELSE s

\* The patterns of isDangerousCommand; an alternation is written out.
DangerousPatterns ==
    { RegExp(Lit(<<"r", "m">>) \o <<Plus(WhiteSpace)>> \o Lit(<<"-", "r", "f">>), FALSE, FALSE),
      RegExp(Lit(<<"s", "u", "d", "o">>) \o <<Plus(WhiteSpace)>> \o Lit(<<"r", "m">>), FALSE, FALSE),
      RegExp(Lit(<<"d", "e", "l">>) \o <<Plus(WhiteSpace)>> \o Lit(<<"/">>) \o <<One({"s", "q"})>>, TRUE, FALSE),
      RegExp(Lit(<<"f", "o", "r", "m", "a", "t">>) \o <<Plus(WhiteSpace)>> \o <<One(ToSet(LowerCase))>> \o Lit(<<":">>), TRUE, FALSE),
      RegExp(Lit(<<"s", "h", "u", "t", "d", "o", "w", "n">>), TRUE, FALSE),
      RegExp(Lit(<<"r", "e", "b", "o", "o", "t">>), TRUE, FALSE),
      RegExp(Lit(<<"k", "i", "l", "l">>) \o <<Plus(WhiteSpace)>> \o Lit(<<"-", "9">>), FALSE, FALSE),
      RegExp(Lit(<<"p", "k", "i", "l", "l">>), FALSE, FALSE),
      RegExp(Lit(<<"c", "h", "m", "o", "d">>) \o <<Plus(WhiteSpace)>> \o Lit(<<"7", "7", "7">>), FALSE, FALSE),
      RegExp(Lit(<<"c", "h", "o", "w", "n">>) \o <<Plus(WhiteSpace)>> \o Lit(<<"r", "o", "o", "t">>), FALSE, FALSE),
      RegExp(Lit(<<"d", "d">>) \o <<Plus(WhiteSpace)>> \o Lit(<<"i", "f", "=">>), FALSE, FALSE),
      RegExp(Lit(<<"m", "k", "f", "s">>), FALSE, FALSE),
      RegExp(Lit(<<"f", "d", "i", "s", "k">>), FALSE, FALSE),
      RegExp(Lit(<<"c", "r", "o", "n", "t", "a", "b">>) \o <<Plus(WhiteSpace)>> \o Lit(<<"-", "r">>), FALSE, FALSE),
      RegExp(Lit(<<">">>) \o <<AnyStar>> \o Lit(<<"/", "d", "e", "v", "/", "n", "u", "l", "l">>), FALSE, FALSE),
      RegExp(Lit(<<">">>) \o <<AnyStar>> \o Lit(<<"/", "d", "e", "v", "/", "z", "e", "r", "o">>), FALSE, FALSE),
      RegExp(Lit(<<">">>) \o <<AnyStar>> \o Lit(<<"/", "d", "e", "v", "/", "r", "a", "n", "d", "o", "m">>), FALSE, FALSE) }

\* The patterns of isDangerousFileOperation, all of them anchored (^).
DangerousPaths ==
    { RegExp(Lit(<<"/", "e", "t", "c", "/">>), FALSE, TRUE),
      RegExp(Lit(<<"/", "b", "i", "n", "/">>), FALSE, TRUE),
      RegExp(Lit(<<"/", "s", "b", "i", "n", "/">>), FALSE, TRUE),
      RegExp(Lit(<<"/", "u", "s", "r", "/", "b", "i", "n", "/">>), FALSE, TRUE),
      RegExp(Lit(<<"/", "u", "s", "r", "/", "s", "b", "i", "n", "/">>), FALSE, TRUE),
      RegExp(Lit(<<"/", "b", "o", "o", "t", "/">>), FALSE, TRUE),
      RegExp(Lit(<<"/", "s", "y", "s", "/">>), FALSE, TRUE),
      RegExp(Lit(<<"/", "p", "r", "o", "c", "/">>), FALSE, TRUE),
      RegExp(Lit(<<"C", ":", "\\", "W", "i", "n", "d", "o", "w", "s", "\\">>), TRUE, TRUE),
      RegExp(Lit(<<"C", ":", "\\", "P", "r", "o", "g", "r", "a", "m", " ", "F", "i", "l", "e", "s", "\\">>), TRUE, TRUE),
      RegExp(Lit(<<"C", ":", "\\", "S", "y", "s", "t", "e", "m", "3", "2", "\\">>), TRUE, TRUE) }

\* ---- the requests and settings given to the gate -----------------------

CmdLs == <<"l", "s">>
CmdRmRf == <<"r", "m", " ", "-", "r", "f", " ", "x">>
CmdReboot == <<"R", "E", "B", "O", "O", "T">>
PathEtcX == <<"/", "e", "t", "c", "/", "x">>
PathTmpX == <<"/", "t", "m", "p", "/", "x">>
PathTmpUpEtcX == <<"/", "t", "m", "p", "/", ".", ".", "/", "e", "t", "c", "/", "x">>
PathWindowsX == <<"c", ":", "\\", "w", "i", "n", "d", "o", "w", "s", "\\", "x">>
OpWrite == <<"w", "r", "i", "t", "e">>
OpRead == <<"r", "e", "a", "d">>
OpDelete == <<"d", "e", "l", "e", "t", "e">>
NameWriteFile == <<"w", "r", "i", "t", "e", "_", "f", "i", "l", "e">>
NameDeleteFile == <<"d", "e", "l", "e", "t", "e", "_", "f", "i", "l", "e">>
NameReadFile == <<"r", "e", "a", "d", "_", "f", "i", "l", "e">>
NameExecuteCommand == <<"e", "x", "e", "c", "u", "t", "e", "_", "c", "o", "m", "m", "a", "n", "d">>
NameBrowserAction == <<"b", "r", "o", "w", "s", "e", "r", "_", "a", "c", "t", "i", "o", "n">>

Details(command, operation, path, toolName) ==
    [command |-> command, operation |-> operation, path |-> path,
     toolName |-> toolName]

Request(type, details) == [type |-> type, details |-> details]

Requests ==
    { Request("command", Details(CmdLs, <<>>, <<>>, <<>>)),
      Request("command", Details(CmdRmRf, <<>>, <<>>, <<>>)),
      Request("command", Details(CmdReboot, <<>>, <<>>, <<>>)),
      Request("file_operation", Details(<<>>, OpWrite, PathEtcX, <<>>)),
      Request("file_operation", Details(<<>>, OpWrite, PathTmpX, <<>>)),
      Request("file_operation", Details(<<>>, OpRead, PathEtcX, <<>>)),
      Request("file_operation", Details(<<>>, OpDelete, PathWindowsX, <<>>)),
      Request("tool_use", Details(<<>>, <<>>, PathEtcX, NameWriteFile)),
      Request("tool_use", Details(<<>>, <<>>, PathTmpUpEtcX, NameWriteFile)),
      Request("tool_use", Details(<<>>, <<>>, PathTmpX, NameDeleteFile)),
      Request("tool_use", Details(<<>>, <<>>, PathEtcX, NameReadFile)),
      Request("tool_use", Details(CmdRmRf, <<>>, <<>>, NameExecuteCommand)),
      Request("tool_use", Details(<<>>, <<>>, <<>>, NameBrowserAction)),
      Request("api_request", Details(<<>>, <<>>, <<>>, <<>>)) }

\* ApprovalSettings
Settings ==
    [autoApprovalEnabled : BOOLEAN,
     maxAutoApprovals : {1, 2},
     autoApprovalTimeWindow : {0, 1},
     dangerousCommandsRequireApproval : BOOLEAN,
     fileOperationsRequireApproval : BOOLEAN]

\* The answers of askFunction.
Responses4 == {"yesButtonClicked", "noButtonClicked"}

\* The time that passes before a call reads Date.now().
Delays == {0, 2}

\* ---- AutoApprovalHandler -------------------------------------------------

IsDangerousCommand(command) ==
    \E re \in DangerousPatterns : Test(re, command)

IsDangerousFileOperation(operation, path) ==
    /\ operation \in {OpDelete, OpWrite}
    /\ \E re \in DangerousPaths : Test(re, path)

IsDangerousToolUse(details) ==
    /\ details.toolName \in {NameExecuteCommand, NameWriteFile,
                             NameDeleteFile, NameBrowserAction}
    /\ \/ /\ details.toolName = NameExecuteCommand
          /\ IsDangerousCommand(details.command)
       \/ /\ details.toolName \in {NameWriteFile, NameDeleteFile}
          /\ IsDangerousFileOperation(SplitFirst(details.toolName),
                                      details.path)

\* requiresManualApproval that does not read the settings of the kind.
RequiresManualApprovalWithoutSettings(type, details, settings) ==
    CASE type = "command" -> IsDangerousCommand(details.command)
      [] type = "file_operation" ->
            IsDangerousFileOperation(details.operation, details.path)
      [] type = "tool_use" -> IsDangerousToolUse(details)
      [] OTHER -> FALSE

\* AutoApprovalHandler.requiresManualApproval
RequiresManualApproval(type, details, settings) ==
    CASE type = "command" ->
            /\ settings.dangerousCommandsRequireApproval
            /\ IsDangerousCommand(details.command)
      [] type = "file_operation" ->
            /\ settings.fileOperationsRequireApproval
            /\ IsDangerousFileOperation(details.operation, details.path)
      [] type = "tool_use" -> IsDangerousToolUse(details)
      [] OTHER -> FALSE

\* settings.autoApprovalTimeWindow || 3600000
TimeWindow(settings) ==
    IF settings.autoApprovalTimeWindow = 0
    THEN DefaultTimeWindow
    ELSE settings.autoApprovalTimeWindow

\* The filter of checkAutoApprovalLimits, and its length.
RecentAutoApprovals(history, time, timeWindow) ==
    Len(SelectSeq(history, LAMBDA req :
                     req.autoApproved /\ time - req.timestamp <= timeWindow))

\* The test of checkAutoApprovalLimits with > in the place of >=.
LimitExceeded(count, settings) == count > settings.maxAutoApprovals

\* recentAutoApprovals >= settings.maxAutoApprovals
LimitReached(count, settings) == count >= settings.maxAutoApprovals

\* AutoApprovalHandler.clearRecentApprovals
ClearRecentApprovals(history, time, timeWindow) ==
    SelectSeq(history, LAMBDA req : time - req.timestamp > timeWindow)

HistoryEntry(req, timestamp, approved, autoApproved) ==
    [req |-> req, timestamp |-> timestamp, approved |-> approved,
     autoApproved |-> autoApproved]

\* addToHistory that trims the history from its end.
AddToHistoryKeepsOldest(history, entry) ==
    LET h == Append(history, entry)
    IN  IF Len(h) > maxHistorySize THEN SubSeq(h, 1, maxHistorySize) ELSE h

\* AutoApprovalHandler.addToHistory
AddToHistory(history, entry) ==
    LET h == Append(history, entry)
    IN  IF Len(h) > maxHistorySize
        THEN SubSeq(h, Len(h) - maxHistorySize + 1, Len(h))
        ELSE h

\* ApprovalResult
Result(shouldProceed, autoApproved, reason) ==
    [shouldProceed |-> shouldProceed, autoApproved |-> autoApproved,
     reason |-> reason]

\* The call has not returned.
NoResult == Result(FALSE, FALSE, "pending")

NoRequest == Request("none", Details(<<>>, <<>>, <<>>, <<>>))

GateStep(op, settings, req, asked, count, response, result) ==
    [op |-> op, settings |-> settings, req |-> req, asked |-> asked,
     count |-> count, response |-> response, result |-> result]

GateNone ==
    GateStep("none", CHOOSE s \in Settings : TRUE, NoRequest, FALSE, 0,
             "none", NoResult)

\* One more call on the gate; it reads Date.now() after the delay dt.
GateCall(dt) ==
    /\ gateCalls < MaxGateCalls
    /\ gateCalls' = gateCalls + 1
    /\ now' = now + dt

\* The call suspended in askFunction.
Suspend(call) ==
    gatePending' = [c \in DOMAIN gatePending \cup {gateCalls + 1} |->
                       IF c = gateCalls + 1 THEN call ELSE gatePending[c]]

GateKeeps ==
    /\ UNCHANGED <<cpTimes, cpDisk, cpCreated, cpEvents, subtasks, stCreated>>
    /\ UNCHANGED <<agentVars, cpVars, toolVars, detVars, taskVars, lateVars>>

\* AutoApprovalHandler.checkAutoApprovalLimits up to its return or to the
\* await of askFunction.
CheckAutoApprovalLimits(settings, dt) ==
    LET timeWindow == TimeWindow(settings)
        recentAutoApprovals ==
            RecentAutoApprovals(approvalHistory, now', timeWindow)
    IN  /\ GateCall(dt)
        /\ IF ~settings.autoApprovalEnabled
           THEN /\ gateLast' = GateStep("check", settings, NoRequest, FALSE,
                                        recentAutoApprovals, "none",
                                        Result(TRUE, FALSE, "none"))
                /\ UNCHANGED <<gatePending, prompted>>
           ELSE IF LimitReached(recentAutoApprovals, settings)
           THEN /\ Suspend([op |-> "check", settings |-> settings,
                            req |-> NoRequest, timestamp |-> now'])
                /\ prompted' = TRUE
                /\ gateLast' = GateStep("check", settings, NoRequest, TRUE,
                                        recentAutoApprovals, "none", NoResult)
           ELSE /\ gateLast' = GateStep("check", settings, NoRequest, FALSE,
                                        recentAutoApprovals, "none",
                                        Result(TRUE, TRUE, "none"))
                /\ UNCHANGED <<gatePending, prompted>>
        /\ UNCHANGED approvalHistory
        /\ GateKeeps

\* checkAutoApprovalLimits after the answer of askFunction.
CheckAnswered(call, response) ==
    /\ call \in DOMAIN gatePending
    /\ gatePending[call].op = "check"
    /\ gatePending' = Without(gatePending, call)
    /\ LET settings == gatePending[call].settings
       IN  IF response = "yesButtonClicked"
           THEN /\ approvalHistory' =
                       ClearRecentApprovals(approvalHistory, now,
                                            TimeWindow(settings))
                /\ gateLast' = GateStep("checkAnswered", settings, NoRequest,
                                        TRUE, 0, response,
                                        Result(TRUE, FALSE,
                                               "User approved continuation"))
           ELSE /\ UNCHANGED approvalHistory
                /\ gateLast' = GateStep("checkAnswered", settings, NoRequest,
                                        TRUE, 0, response,
                                        Result(FALSE, FALSE,
                                               "User denied continuation"))
    /\ UNCHANGED <<now, gateCalls, prompted>>
    /\ GateKeeps

\* AutoApprovalHandler.requestApproval up to its return or to the await of
\* askFunction.
RequestApproval(req, settings, dt) ==
    /\ GateCall(dt)
    /\ IF \/ ~settings.autoApprovalEnabled
          \/ RequiresManualApproval(req.type, req.details, settings)
       THEN /\ Suspend([op |-> "request", settings |-> settings,
                        req |-> req, timestamp |-> now'])
            /\ gateLast' = GateStep("request", settings, req, TRUE, 0, "none",
                                    NoResult)
            /\ UNCHANGED approvalHistory
       ELSE /\ approvalHistory' =
                   AddToHistory(approvalHistory,
                                HistoryEntry(req, now', TRUE, TRUE))
            /\ gateLast' = GateStep("request", settings, req, FALSE, 0, "none",
                                    Result(TRUE, TRUE, "Auto-approved"))
            /\ UNCHANGED gatePending
    /\ UNCHANGED prompted
    /\ GateKeeps

\* requestApproval after the answer of askFunction.
RequestAnswered(call, response) ==
    /\ call \in DOMAIN gatePending
    /\ gatePending[call].op = "request"
    /\ gatePending' = Without(gatePending, call)
    /\ LET approved == response = "yesButtonClicked"
           pending == gatePending[call]
       IN  /\ approvalHistory' =
                  AddToHistory(approvalHistory,
                               HistoryEntry(pending.req, pending.timestamp,
                                            approved, FALSE))
           /\ gateLast' = GateStep("requestAnswered", pending.settings,
                                   pending.req, TRUE, 0, response,
                                   Result(approved, FALSE,
                                          IF approved THEN "User approved"
                                          ELSE "User denied"))
    /\ UNCHANGED <<now, gateCalls, prompted>>
    /\ GateKeeps

GateCallIds == 1..MaxGateCalls

\* The settings and requests of the runs that exercise the limits.
LimitSettings ==
    {s \in Settings : /\ s.dangerousCommandsRequireApproval
                      /\ s.fileOperationsRequireApproval}

LimitRequests == {r \in Requests : r.type = "command"
                                   /\ r.details.command = CmdLs}

NextGate ==
    \/ \E s \in LimitSettings, dt \in Delays : CheckAutoApprovalLimits(s, dt)
    \/ \E c \in GateCallIds, r \in Responses4 : CheckAnswered(c, r)
    \/ \E q \in LimitRequests, s \in LimitSettings, dt \in Delays :
          RequestApproval(q, s, dt)
    \/ \E c \in GateCallIds, r \in Responses4 : RequestAnswered(c, r)

\* The calls of requestApproval of the runs that fill the history.
NextHistory ==
    \/ \E q \in LimitRequests, s \in LimitSettings, dt \in Delays :
          /\ s.maxAutoApprovals = 1
          /\ s.autoApprovalTimeWindow = 0
          /\ RequestApproval(q, s, dt)
    \/ \E c \in GateCallIds, r \in Responses4 : RequestAnswered(c, r)

\* The request and the settings drawn at the start are submitted.
SubmitRequest ==
    /\ gateLast.op = "input"
    /\ \E dt \in Delays : RequestApproval(gateLast.req, gateLast.settings, dt)

NextRouting ==
    \/ SubmitRequest
    \/ \E c \in GateCallIds, r \in Responses4 : RequestAnswered(c, r)

(***************************************************************************)
(* Properties of the AutoApprovalHandler                                   *)
(***************************************************************************)

\* The kind is one for which the settings require manual approval.
KindRequiresManualApproval(type, settings) ==
    \/ type = "command" /\ settings.dangerousCommandsRequireApproval
    \/ type = "file_operation" /\ settings.fileOperationsRequireApproval
    \/ type = "tool_use"

\* The details match a pattern of the two danger lists.
MatchesDangerPattern(req) ==
    LET d == req.details
        command == \E re \in DangerousPatterns : Test(re, d.command)
        path == \E re \in DangerousPaths : Test(re, d.path)
    IN  \/ req.type = "command" /\ command
        \/ req.type = "file_operation"
              /\ d.operation \in {OpWrite, OpDelete} /\ path
        \/ req.type = "tool_use"
              /\ d.toolName = NameExecuteCommand /\ command
        \/ req.type = "tool_use"
              /\ d.toolName \in {NameWriteFile, NameDeleteFile} /\ path

ProtectedTargets == {PathEtcX, PathTmpUpEtcX}

\* A write_file on a protected path, as a file operation or as a tool use.
WritesProtectedPath(req) ==
    /\ req.details.path \in ProtectedTargets
    /\ \/ req.type = "file_operation" /\ req.details.operation = OpWrite
       \/ req.type = "tool_use" /\ req.details.toolName = NameWriteFile

\* C14: with auto-approval enabled, whatever the other settings, a
\* write_file on a protected system path is put to the human and is not
\* auto-approved.
C14_ProtectedWriteIsNeverAutoApproved ==
    (/\ gateLast.op = "request"
     /\ gateLast.settings.autoApprovalEnabled
     /\ WritesProtectedPath(gateLast.req))
        => gateLast.asked /\ ~gateLast.result.autoApproved

\* C14, for a path that begins with a protected prefix, given as a tool
\* use or with fileOperationsRequireApproval set: it is put to the human.
C14_ProtectedPrefixIsAskedWhenKindRequires ==
    (/\ gateLast.op = "request"
     /\ WritesProtectedPath(gateLast.req)
     /\ gateLast.req.details.path = PathEtcX
     /\ KindRequiresManualApproval(gateLast.req.type, gateLast.settings))
        => gateLast.asked /\ ~gateLast.result.autoApproved

\* C15: when an auto-approval has been recorded, the auto-approved entries
\* of the trailing window are at most maxAutoApprovals, unless the
\* continuation prompt has been shown.
C15_AutoApprovalsStayWithinLimit ==
    (gateLast.op = "request" /\ ~gateLast.asked)
        => \/ RecentAutoApprovals(approvalHistory, now,
                                  TimeWindow(gateLast.settings))
                 <= gateLast.settings.maxAutoApprovals
           \/ prompted

\* C15, for checkAutoApprovalLimits alone: it returns autoApproved only
\* below the maximum.
C15_CheckAutoApprovesBelowLimit ==
    (gateLast.op = "check" /\ gateLast.result.autoApproved)
        => RecentAutoApprovals(approvalHistory, now,
                               TimeWindow(gateLast.settings))
              < gateLast.settings.maxAutoApprovals

\* The step is a call of checkAutoApprovalLimits.
IsCheck == gateCalls' # gateCalls /\ gateLast'.op = "check"

\* The step is the answer to the continuation prompt.
IsCheckAnswer == gatePending' # gatePending /\ gateLast'.op = "checkAnswered"

\* The auto-approvals of the trailing window when the call counts them.
CountAtCall ==
    RecentAutoApprovals(approvalHistory, now', TimeWindow(gateLast'.settings))

\* What C16 says of the answer: yes expires every entry of the window and
\* the operation proceeds; any other answer blocks it and leaves the
\* history as it is.
AnswerDecides ==
    IsCheckAnswer
        => IF gateLast'.response = "yesButtonClicked"
           THEN /\ gateLast'.result.shouldProceed
                /\ \A k \in 1..Len(approvalHistory') :
                      now' - approvalHistory'[k].timestamp
                         > TimeWindow(gateLast'.settings)
                /\ RecentAutoApprovals(approvalHistory', now',
                                       TimeWindow(gateLast'.settings)) = 0
           ELSE /\ ~gateLast'.result.shouldProceed
                /\ approvalHistory' = approvalHistory

\* C16 as stated: checkAutoApprovalLimits asks for the continuation exactly
\* when the auto-approvals of the trailing window have reached the maximum;
\* yes expires the window and proceeds, any other answer blocks and leaves
\* the history unchanged.
C16_AsksExactlyAtTheMaximum ==
    [][/\ IsCheck
            => (gateLast'.asked
                  <=> CountAtCall >= gateLast'.settings.maxAutoApprovals)
       /\ AnswerDecides]_vars

\* C16 amended: with auto-approval enabled it asks exactly when the
\* auto-approvals of the trailing window have reached the maximum; with
\* auto-approval disabled it never asks and lets the operation proceed,
\* not auto-approved; the answers decide as stated.
C16_AsksAtTheMaximumWhenEnabled ==
    [][/\ IsCheck
            => /\ gateLast'.asked
                    <=> /\ gateLast'.settings.autoApprovalEnabled
                        /\ CountAtCall >= gateLast'.settings.maxAutoApprovals
               /\ ~gateLast'.asked
                    => /\ gateLast'.result.shouldProceed
                       /\ gateLast'.result.autoApproved
                             = gateLast'.settings.autoApprovalEnabled
               /\ UNCHANGED approvalHistory
       /\ AnswerDecides]_vars

\* Two auto-approvals reached a maximum of 2, the continuation was asked
\* and the human said yes.
C16_Witness ==
    /\ gateLast.op = "checkAnswered"
    /\ gateLast.response = "yesButtonClicked"
    /\ gateLast.settings.maxAutoApprovals = 2
    /\ gateLast.result.shouldProceed

\* A call of requestApproval returns in this step.
RequestReturns ==
    \/ gateCalls' # gateCalls /\ gateLast'.op = "request" /\ ~gateLast'.asked
    \/ gatePending' # gatePending /\ gateLast'.op = "requestAnswered"

\* The history after one more entry, with its oldest entry evicted when
\* the history was full.
Recorded(history, entry) ==
    IF Len(history) < maxHistorySize
    THEN Append(history, entry)
    ELSE Append(Tail(history), entry)

\* C34: every outcome of requestApproval, auto-approved, approved by the
\* user or denied, appends one entry; the history never has more than
\* maxHistorySize entries, and when it is full its oldest entry goes and
\* the new entry is kept.
C34_OneEntryPerOutcomeWithinCap ==
    [][/\ Len(approvalHistory') <= maxHistorySize
       /\ RequestReturns
            => /\ approvalHistory' # <<>>
               /\ LET entry == approvalHistory'[Len(approvalHistory')]
                  IN  /\ entry.req = gateLast'.req
                      /\ entry.timestamp <= now'
                      /\ entry.approved = gateLast'.result.shouldProceed
                      /\ entry.autoApproved = gateLast'.result.autoApproved
                      /\ approvalHistory' = Recorded(approvalHistory, entry)
      ]_vars

\* A full history has taken two more entries, the second one a denial:
\* its two oldest entries are gone and the denial is its last entry.
C34_Witness ==
    /\ gateLast.op = "requestAnswered"
    /\ ~gateLast.result.shouldProceed
    /\ Len(approvalHistory) = maxHistorySize
    /\ approvalHistory[1].timestamp = 3
    /\ ~approvalHistory[maxHistorySize].approved
    /\ approvalHistory[maxHistorySize - 1].timestamp >= maxHistorySize

IsPrefix(a, b) == Len(a) <= Len(b) /\ SubSeq(b, 1, Len(a)) = a

\* C35: the history is an append-only audit: in every step each entry
\* stays as it was recorded, in its place after the entries recorded
\* before it, and only the oldest entry of a full history that takes a new
\* entry leaves.
C35_HistoryIsAppendOnly ==
    [][\/ IsPrefix(approvalHistory, approvalHistory')
       \/ /\ Len(approvalHistory) = maxHistorySize
          /\ RequestReturns
          /\ IsPrefix(Tail(approvalHistory), approvalHistory')
      ]_vars

\* C35, for the entries that stay: no step changes a field of an entry;
\* every entry of the history after the step is an entry of the history
\* before it or the entry of the call that returns.
C35_EntriesAreNeverEdited ==
    [][\A k \in 1..Len(approvalHistory') :
          \/ \E j \in 1..Len(approvalHistory) :
                approvalHistory[j] = approvalHistory'[k]
          \/ k = Len(approvalHistory') /\ RequestReturns
      ]_vars

\* C35, for requestApproval alone: its calls leave every recorded entry in
\* the history.
C35_RequestsOnlyAppend ==
    [][gateLast'.op \in {"request", "requestAnswered"}
          => IsPrefix(approvalHistory, approvalHistory')]_vars

(***************************************************************************)
(* Part 5: ToolExecutor                                                    *)
(***************************************************************************)

\* Tool calls dispatched by one ToolExecutor.
MaxToolOps == 2

\* ---- paths ---------------------------------------------------------------
\* An absolute path is the root "/" followed by its names.

Slash == <<"/">>
Dot == <<".">>
DotDot == <<".", ".">>
NameW == <<"w">>
NameX == <<"x">>

\* ToolExecutor.workspacePath, and a file beside the workspace.
WorkspacePath == <<Slash, NameW>>
OutsidePath == <<Slash, NameX>>

\* path.normalize of the segments segs after the absolute path acc.
RECURSIVE Normalize(_, _)
Normalize(segs, acc) ==
    IF segs = <<>>
    THEN acc
    ELSE IF Head(segs) = Dot
    THEN Normalize(Tail(segs), acc)
    ELSE IF Head(segs) = DotDot
    THEN Normalize(Tail(segs),
                   IF Len(acc) > 1 THEN SubSeq(acc, 1, Len(acc) - 1) ELSE acc)
    ELSE Normalize(Tail(segs), Append(acc, Head(segs)))

\* path.resolve(this.workspacePath, filePath)
PathResolve(segs) ==
    IF segs # <<>> /\ Head(segs) = Slash
    THEN Normalize(Tail(segs), <<Slash>>)
    ELSE Normalize(segs, WorkspacePath)

InsideRoot(abs) ==
    Len(abs) >= Len(WorkspacePath)
        /\ SubSeq(abs, 1, Len(WorkspacePath)) = WorkspacePath

\* path.relative(this.workspacePath, abs) of a path inside the root.
Rel(abs) == SubSeq(abs, Len(WorkspacePath) + 1, Len(abs))

\* The node at an absolute path: "absent", "dir" or the content of a file.
NodeAt(w, out, abs) ==
    IF abs = <<Slash>> \/ abs = WorkspacePath THEN "dir"
    ELSE IF abs = OutsidePath THEN out
    ELSE IF InsideRoot(abs) /\ Rel(abs) \in Paths THEN w[Rel(abs)]
    ELSE "absent"

\* The files below the directory abs, as searchInDirectory finds them.
FilesUnder(w, out, abs) ==
    {f \in {OutsidePath} \cup {WorkspacePath \o p : p \in Paths} :
        /\ Len(f) > Len(abs)
        /\ SubSeq(f, 1, Len(abs)) = abs
        /\ NodeAt(w, out, f) \notin {"absent", "dir"}}

\* fs.mkdir(path.dirname(abs), {recursive: true}), then fs.writeFile.
WriteAt(w, out, abs, content) ==
    IF InsideRoot(abs) /\ Rel(abs) \in Paths
    THEN LET dir == MkdirP(w, Parent(Rel(abs)))
             wr == FsWriteFile(dir.w, Rel(abs), content)
         IN  [ok |-> dir.ok /\ wr.ok,
              w |-> IF dir.ok THEN wr.w ELSE w, out |-> out]
    ELSE IF abs = OutsidePath /\ out # "dir"
    THEN [ok |-> TRUE, w |-> w, out |-> content]
    ELSE [ok |-> FALSE, w |-> w, out |-> out]

\* ---- the tool calls of a message ----------------------------------------

\* A path argument: its text and the segments of that text.
Arg(text, segs) == [text |-> text, segs |-> segs]

ArgA == Arg("a", <<NameA>>)
ArgAB == Arg("a/b", <<NameA, NameB>>)
ArgUpX == Arg("../x", <<DotDot, NameX>>)
ArgAbsX == Arg("/x", <<Slash, NameX>>)
ArgUp == Arg("..", <<DotDot>>)
ArgCurrent == Arg(".", <<Dot>>)

\* The arguments parseToolArgs found; given names those that are present,
\* and content holds the content, the query or the diff.
Args(given, path, content, command) ==
    [given |-> given, path |-> path, content |-> content,
     command |-> command]

ToolUse(name, args) == [name |-> name, args |-> args]

ToolUseSet ==
    { ToolUse("read_file", Args({"path"}, ArgA, "", "")),
      ToolUse("read_file", Args({"path"}, ArgAB, "", "")),
      ToolUse("read_file", Args({"path"}, ArgUpX, "", "")),
      ToolUse("read_file", Args({}, ArgCurrent, "", "")),
      ToolUse("write_file", Args({"path", "content"}, ArgAB, "2", "")),
      ToolUse("write_file", Args({"path", "content"}, ArgAbsX, "2", "")),
      ToolUse("list_files", Args({}, ArgCurrent, "", "")),
      ToolUse("list_files", Args({"path"}, ArgUp, "", "")),
      ToolUse("search_files", Args({"query"}, ArgCurrent, "1", "")),
      ToolUse("search_files", Args({"query", "path"}, ArgUp, "1", "")),
      ToolUse("apply_diff", Args({"path", "diff"}, ArgA, "2", "")),
      ToolUse("apply_diff", Args({"path", "diff"}, ArgUpX, "2", "")),
      ToolUse("execute_command", Args({"command"}, ArgCurrent, "", "make")),
      ToolUse("ask_followup", Args({"question"}, ArgCurrent, "", "")),
      ToolUse("attempt_completion", Args({"result"}, ArgCurrent, "", "")),
      ToolUse("browser_action", Args({}, ArgCurrent, "", "")) }

\* How a child process ends: it exits with 0, exits with another code, or
\* is killed when the timeout of 30 s expires; what it had written by then.
Outcomes ==
    [status : {"exit0", "failed", "timeout"},
     stdout : {"", "out"},
     stderr : {"", "err"}]

NoOutcome == [status |-> "none", stdout |-> "", stderr |-> ""]

\* ---- ToolExecutor --------------------------------------------------------

\* ToolResult; content is the sequence of the parts of its template.
ToolResult(toolName, content, success, error) ==
    [toolName |-> toolName, content |-> content, success |-> success,
     error |-> error]

\* What one tool did: its result or the error it threw, the files it left,
\* and the absolute paths it read, wrote or listed.
Done(result, w, out, accessed) ==
    [threw |-> FALSE, result |-> result, error |-> <<>>, w |-> w,
     out |-> out, accessed |-> accessed]

TypeError == <<"The \"path\" argument must be of type string">>

\* ToolExecutor.readFile
ReadFile(w, out, args) ==
    LET fullPath == PathResolve(args.path.segs)
        node == NodeAt(w, out, fullPath)
    IN  IF "path" \notin args.given
        THEN Done(ToolResult("read_file", <<"Error reading file ", "undefined",
                                            ": ">> \o TypeError,
                             FALSE, TypeError), w, out, {})
        ELSE IF node \in {"absent", "dir"}
        THEN Done(ToolResult("read_file", <<"Error reading file ",
                                            args.path.text, ": ", node>>,
                             FALSE, <<node>>), w, out, {})
        ELSE Done(ToolResult("read_file", <<"File content of ", args.path.text,
                                            ":\n\n", node>>, TRUE, <<>>),
                  w, out, {fullPath})

\* ToolExecutor.writeFile
WriteFile(w, out, args) ==
    LET fullPath == PathResolve(args.path.segs)
        wr == WriteAt(w, out, fullPath, args.content)
    IN  IF wr.ok
        THEN Done(ToolResult("write_file", <<"Successfully wrote to ",
                                             args.path.text>>, TRUE, <<>>),
                  wr.w, wr.out, {fullPath})
        ELSE Done(ToolResult("write_file", <<"Error writing file ",
                                             args.path.text, ": ", "fs">>,
                             FALSE, <<"fs">>), wr.w, wr.out, {})

\* ToolExecutor.executeCommand, for the way oc the process ends.
ExecuteCommand(w, out, args, oc) ==
    LET command == args.command
        message == <<"Command failed: ", command, "\n", oc.stderr>>
    IN  IF oc.status = "exit0"
        THEN Done(ToolResult("execute_command",
                             <<"Command: ", command, "\n\nOutput:\n",
                               oc.stdout>>
                               \o (IF oc.stderr # ""
                                   THEN <<"\nSTDERR:\n", oc.stderr>>
                                   ELSE <<>>),
                             TRUE, <<>>), w, out, {})
        ELSE Done(ToolResult("execute_command",
                             <<"Error executing command \"", command, "\": ">>
                               \o message,
                             FALSE, message), w, out, {})

\* ToolExecutor.listFiles
ListFiles(w, out, args) ==
    LET dirPath == IF "path" \in args.given THEN args.path ELSE ArgCurrent
        fullPath == PathResolve(dirPath.segs)
        node == NodeAt(w, out, fullPath)
    IN  IF node = "dir"
        THEN Done(ToolResult("list_files", <<"Files in ", dirPath.text,
                                             ":\n\n", "entries">>, TRUE, <<>>),
                  w, out, {fullPath})
        ELSE Done(ToolResult("list_files", <<"Error listing files in ",
                                             dirPath.text, ": ", "fs">>,
                             FALSE, <<"fs">>), w, out, {})

\* content.toLowerCase().includes(query.toLowerCase()), for contents and
\* queries of one digit.
Includes(content, query) == query = "" \/ content = query

\* ToolExecutor.searchFiles and searchInDirectory
SearchFiles(w, out, args) ==
    LET searchDir == IF "path" \in args.given
                     THEN PathResolve(args.path.segs)
                     ELSE WorkspacePath
        read == FilesUnder(w, out, searchDir)
    IN  IF NodeAt(w, out, searchDir) = "dir"
        THEN Done(ToolResult("search_files",
                             <<"Search results for \"", args.content,
                               "\":\n\n", "results">>, TRUE, <<>>),
                  w, out, read)
        ELSE Done(ToolResult("search_files",
                             <<"Error searching for \"", args.content,
                               "\": ", "fs">>, FALSE, <<"fs">>), w, out, {})

\* ToolExecutor.applySimpleDiff
ApplySimpleDiff(content, diff) == content \o "\n" \o diff

\* ToolExecutor.applyDiff
ApplyDiff(w, out, args) ==
    LET fullPath == PathResolve(args.path.segs)
        node == NodeAt(w, out, fullPath)
        wr == WriteAt(w, out, fullPath, ApplySimpleDiff(node, args.content))
    IN  IF node \in {"absent", "dir"}
        THEN Done(ToolResult("apply_diff", <<"Error applying diff to ",
                                             args.path.text, ": ", node>>,
                             FALSE, <<node>>), w, out, {})
        ELSE Done(ToolResult("apply_diff", <<"Successfully applied diff to ",
                                             args.path.text>>, TRUE, <<>>),
                  wr.w, wr.out, {fullPath})

\* ToolExecutor.executeTool
ExecuteTool(w, out, use, oc) ==
    CASE use.name = "read_file" -> ReadFile(w, out, use.args)
      [] use.name = "write_file" -> WriteFile(w, out, use.args)
      [] use.name = "execute_command" -> ExecuteCommand(w, out, use.args, oc)
      [] use.name = "list_files" -> ListFiles(w, out, use.args)
      [] use.name = "search_files" -> SearchFiles(w, out, use.args)
      [] use.name = "apply_diff" -> ApplyDiff(w, out, use.args)
      [] use.name = "ask_followup" ->
            Done(ToolResult("ask_followup", <<"Asked user: ", "question">>,
                            TRUE, <<>>), w, out, {})
      [] use.name = "attempt_completion" ->
            Done(ToolResult("attempt_completion",
                            <<"Task completed: ", "result">>, TRUE, <<>>),
                 w, out, {})
      [] OTHER ->
            [threw |-> TRUE,
             result |-> ToolResult(use.name, <<>>, FALSE, <<>>),
             error |-> <<"Unknown tool: ", use.name>>,
             w |-> w, out |-> out, accessed |-> {}]

\* The loop body of executeTools that pushes a result only when the tool
\* returned one.
PushedOnReturn(res, use, d) ==
    IF d.threw THEN res ELSE Append(res, d.result)

\* The result of one iteration of executeTools: the result of the tool, or
\* in the catch the failed result made of the error.
ResultOf(use, d) ==
    IF d.threw
    THEN ToolResult(use.name, <<"Error executing ", use.name, ": ">> \o d.error,
                    FALSE, d.error)
    ELSE d.result

\* The loop body of executeTools: results.push in the try and in the catch.
Pushed(res, use, d) == Append(res, ResultOf(use, d))

\* An event of the ToolExecutor: 'tool_use' with the tool use, or
\* 'tool_result' with the result.
ToolEvent(event, use, result) ==
    [event |-> event, use |-> use, result |-> result]

\* What `toolLast` records; begun counts the tool uses of the batch whose
\* executeTool call has been made.
ToolStep(op, batch, use, oc, accessed, returned) ==
    [op |-> op, batch |-> batch, use |-> use, oc |-> oc,
     accessed |-> accessed, returned |-> returned, begun |-> 0]

NoUse == ToolUse("none", Args({}, ArgCurrent, "", ""))

ToolNone == ToolStep("none", <<>>, NoUse, NoOutcome, {}, <<>>)

NoToolResult == ToolResult("none", <<>>, FALSE, <<>>)

\* emit('tool_use', toolUse.name, toolUse.args), before the tool runs.
EmittedUse(events, use) ==
    Append(events, ToolEvent("tool_use", use, NoToolResult))

\* emit('tool_result', result) with the result just pushed.
EmittedResult(events, use, d) ==
    Append(events, ToolEvent("tool_result", use, ResultOf(use, d)))

\* A loop that calls executeTool without awaiting it.
NotAwaited(begun, finished) == TRUE

\* `await this.executeTool(...)`: the loop goes on to its next tool use
\* when every call it has made has returned or thrown.
Awaited(begun, finished) == begun = finished

\* The tool uses of the batch whose call has returned or thrown.
Finished == Len(toolLast.batch) - Len(toolUses)

\* An invocation of executeTools is in flight.
Executing == toolLast.op \in {"parse", "begin", "tool"}

ToolsKeep ==
    /\ UNCHANGED <<checkpoints, cpLast, cpOps>>
    /\ UNCHANGED <<agentVars, storeVars, gateVars, detVars, taskVars,
                   lateVars>>

\* executeTools up to its loop: the tool uses parsed from the message.
ExecuteTools(batch) ==
    /\ ~Executing
    /\ Len(batch) <= MaxToolOps - toolOps
    /\ toolUses' = batch
    /\ results' = <<>>
    /\ toolLast' = ToolStep("parse", batch, NoUse, NoOutcome, {}, <<>>)
    /\ toolEvents' = <<>>
    /\ UNCHANGED <<ws, outside, toolOps>>
    /\ ToolsKeep

\* An iteration of the loop of executeTools up to its await: 'tool_use' is
\* emitted and executeTool is called.
ExecuteBegin ==
    /\ Executing
    /\ toolLast.begun < Len(toolLast.batch)
    /\ Awaited(toolLast.begun, Finished)
    /\ LET use == toolLast.batch[toolLast.begun + 1]
       IN  /\ toolEvents' = EmittedUse(toolEvents, use)
           /\ toolLast' = [ToolStep("begin", toolLast.batch, use, NoOutcome,
                                    {}, <<>>)
                             EXCEPT !.begun = toolLast.begun + 1]
    /\ UNCHANGED <<ws, outside, toolUses, results, toolOps>>
    /\ ToolsKeep

\* The rest of the iteration: the tool has run, its result is pushed and
\* 'tool_result' is emitted.
ExecuteNext(oc) ==
    /\ Executing
    /\ toolUses # <<>>
    /\ Finished < toolLast.begun
    /\ (oc = NoOutcome) <=> (Head(toolUses).name # "execute_command")
    /\ LET use == Head(toolUses)
           d == ExecuteTool(ws, outside, use, oc)
       IN  /\ ws' = d.w
           /\ outside' = d.out
           /\ results' = Pushed(results, use, d)
           /\ toolEvents' = EmittedResult(toolEvents, use, d)
           /\ toolLast' = [ToolStep("tool", toolLast.batch, use, oc,
                                    d.accessed, <<>>)
                             EXCEPT !.begun = toolLast.begun]
    /\ toolUses' = Tail(toolUses)
    /\ toolOps' = toolOps + 1
    /\ ToolsKeep

\* The return of executeTools.
ReturnResults ==
    /\ Executing
    /\ toolUses = <<>>
    /\ toolLast' = [ToolStep("return", toolLast.batch, NoUse, NoOutcome, {},
                             results)
                      EXCEPT !.begun = toolLast.begun]
    /\ results' = <<>>
    /\ UNCHANGED <<ws, outside, toolUses, toolOps, toolEvents>>
    /\ ToolsKeep

\* The messages the model may send: up to MaxToolOps tool uses.
Batches == UNION {[1..n -> ToolUseSet] : n \in 0..MaxToolOps}

NextTools ==
    \/ \E batch \in Batches : ExecuteTools(batch)
    \/ ExecuteBegin
    \/ \E oc \in Outcomes \cup {NoOutcome} : ExecuteNext(oc)
    \/ ReturnResults

(***************************************************************************)
(* Properties of the ToolExecutor                                          *)
(***************************************************************************)

\* The names executeTool knows.
KnownTools ==
    {"read_file", "write_file", "execute_command", "list_files",
     "search_files", "apply_diff", "ask_followup", "attempt_completion"}

\* C17: executeTools returns one ToolResult for each tool use of the
\* message, in the order of the message; the result of an unknown tool is
\* a failure, and the uses after a failed one have their results too.
C17_OneResultPerToolUse ==
    toolLast.op = "return"
        => /\ Len(toolLast.returned) = Len(toolLast.batch)
           /\ \A k \in 1..Len(toolLast.batch) :
                 /\ toolLast.returned[k].toolName = toolLast.batch[k].name
                 /\ toolLast.batch[k].name \notin KnownTools
                       => ~toolLast.returned[k].success

\* C17: while executeTools runs, the tool uses still to run and the
\* results pushed make up the message.
C17_NoToolUseIsSkipped ==
    Executing => Len(results) + Len(toolUses) = Len(toolLast.batch)

\* A message of two tool uses: the first is unknown and fails, the second
\* is run and succeeds.
C17_Witness ==
    /\ toolLast.op = "return"
    /\ Len(toolLast.returned) = 2
    /\ toolLast.batch[1].name \notin KnownTools
    /\ ~toolLast.returned[1].success
    /\ toolLast.returned[2].success

\* The results of the invocation of executeTools, in flight or returned.
ResultsSoFar ==
    IF toolLast.op = "return" THEN toolLast.returned ELSE results

\* Two tool uses name the same file.
SameFile(use1, use2) ==
    /\ "path" \in use1.args.given
    /\ "path" \in use2.args.given
    /\ PathResolve(use1.args.path.segs) = PathResolve(use2.args.path.segs)

\* C29: the events of a batch are, for its tool uses in the order of the
\* message, 'tool_use' of the use and then 'tool_result' with its result:
\* no use is requested or run before the result of the one before it is
\* emitted, and a read_file that follows a successful write_file of the
\* same file returns what was written.
C29_CallsRunInOrderOneAtATime ==
    toolLast.op # "none"
        => /\ toolLast.begun - Len(ResultsSoFar) \in {0, 1}
           /\ Len(toolEvents) = toolLast.begun + Len(ResultsSoFar)
           /\ \A k \in 1..Len(toolEvents) :
                 LET call == (k + 1) \div 2
                 IN  /\ toolEvents[k].use = toolLast.batch[call]
                     /\ IF k % 2 = 1
                        THEN toolEvents[k].event = "tool_use"
                        ELSE /\ toolEvents[k].event = "tool_result"
                             /\ toolEvents[k].result = ResultsSoFar[call]
           /\ \A k \in 2..Len(ResultsSoFar) :
                 (/\ toolLast.batch[k - 1].name = "write_file"
                  /\ ResultsSoFar[k - 1].success
                  /\ toolLast.batch[k].name = "read_file"
                  /\ SameFile(toolLast.batch[k - 1], toolLast.batch[k]))
                     => /\ ResultsSoFar[k].success
                        /\ ResultsSoFar[k].content[4]
                              = toolLast.batch[k - 1].args.content

\* A message that writes a/b and then reads it has returned: four events,
\* and the second result holds the content the first call wrote.
C29_Witness ==
    /\ toolLast.op = "return"
    /\ Len(toolLast.batch) = 2
    /\ toolLast.batch[1].name = "write_file"
    /\ toolLast.batch[2].name = "read_file"
    /\ SameFile(toolLast.batch[1], toolLast.batch[2])
    /\ toolLast.returned[1].success
    /\ toolLast.returned[2].content[4] = toolLast.batch[1].args.content
    /\ Len(toolEvents) = 4
    /\ toolEvents[3].event = "tool_use"
    /\ toolEvents[2].event = "tool_result"

\* C30: a tool use is run only after it has been submitted to the
\* AutoApprovalHandler, which let it proceed, and to the
\* ToolRepetitionDetector.
C30_ExecutedCallsWereSubmitted ==
    toolLast.op = "tool"
        => /\ gateCalls > 0
           /\ gateLast.op # "none"
           /\ detCalls > 0
           /\ detLast.op # "none"

\* The tools that take a file path.
FileTools ==
    {"read_file", "write_file", "list_files", "search_files", "apply_diff"}

\* The path the tool use names lies outside the workspace root.
Escapes(use) ==
    "path" \in use.args.given /\ ~InsideRoot(PathResolve(use.args.path.segs))

\* C18: a file tool reads, writes and lists inside the workspace root only,
\* and fails when its path leaves the root.
C18_FileToolsStayInsideRoot ==
    (toolLast.op = "tool" /\ toolLast.use.name \in FileTools)
        => /\ \A abs \in toolLast.accessed : InsideRoot(abs)
           /\ Escapes(toolLast.use) => ~results[Len(results)].success

\* C18: no step of the dispatcher changes the file beside the workspace.
C18_OutsideFileIsNeverWritten ==
    [][outside' = outside]_vars

\* C18, for the paths that stay inside: what a file tool touches lies
\* inside the root.
C18_InsidePathsStayInside ==
    (toolLast.op = "tool" /\ toolLast.use.name \in FileTools
        /\ ~Escapes(toolLast.use))
        => \A abs \in toolLast.accessed : InsideRoot(abs)

\* C19: a command killed at the timeout gives a failed ToolResult whose
\* content holds what the command had written to stdout and stderr.
C19_TimeoutFailsWithPartialOutput ==
    (toolLast.op = "tool" /\ toolLast.oc.status = "timeout")
        => LET result == results[Len(results)]
           IN  /\ ~result.success
               /\ toolLast.oc.stdout # ""
                     => toolLast.oc.stdout \in ToSet(result.content)
               /\ toolLast.oc.stderr # ""
                     => toolLast.oc.stderr \in ToSet(result.content)

\* C19, without the output: a command killed at the timeout gives a failed
\* ToolResult that holds its stderr, and the loop goes on.
C19_TimeoutFails ==
    (toolLast.op = "tool" /\ toolLast.oc.status = "timeout")
        => LET result == results[Len(results)]
           IN  /\ ~result.success
               /\ toolLast.oc.stderr \in ToSet(result.content)

(***************************************************************************)
(* Part 6: ToolRepetitionDetector                                          *)
(***************************************************************************)

\* Calls made on one detector, and the largest limit it is built with.
MaxDetCalls == 3
MaxLimit == 2

\* 5 * 60 * 1000: the age in ms at which an entry leaves the history.
StaleAfter == 300000

\* The time between two calls.
DetDelays == {0, StaleAfter - 1, StaleAfter}

\* Arguments of a tool: the properties of the object in insertion order,
\* each a key and a string, or "undefined".
ArgsPathA == << <<"path", "a">> >>
ArgsPathAUndefined == << <<"path", "a">>, <<"content", "undefined">> >>
ArgsPathB == << <<"path", "b">> >>

DetArgs == {ArgsPathA, ArgsPathAUndefined, ArgsPathB}

DetTools == {"read_file", "write_file"}

\* JSON.stringify of the properties from position i on; a property whose
\* value is undefined is left out.
RECURSIVE StringifyFrom(_, _, _)
StringifyFrom(args, i, first) ==
    IF i > Len(args)
    THEN <<"}">>
    ELSE IF args[i][2] = "undefined"
    THEN StringifyFrom(args, i + 1, first)
    ELSE (IF first THEN <<>> ELSE <<",">>)
            \o <<"\"", args[i][1], "\"", ":", "\"", args[i][2], "\"">>
            \o StringifyFrom(args, i + 1, FALSE)

\* JSON.stringify(args)
Stringify(args) == <<"{">> \o StringifyFrom(args, 1, TRUE)

\* arr.slice(-n)
SliceLast(arr, n) ==
    IF n = 0 \/ n >= Len(arr) THEN arr
    ELSE SubSeq(arr, Len(arr) - n + 1, Len(arr))

\* A history that is never pruned.
NeverPruned(history, t) == history

\* toolHistory.filter(entry => now - entry.timestamp < 5 * 60 * 1000)
Fresh(history, t) == SelectSeq(history, LAMBDA e : t - e.timestamp < StaleAfter)

\* areArgumentsSimilar without the guard on the length of the list.
AllSerializedEqual(argsList) ==
    \A i \in 1..Len(argsList) : Stringify(argsList[i]) = Stringify(argsList[1])

\* ToolRepetitionDetector.areArgumentsSimilar
AreArgumentsSimilar(argsList) ==
    IF Len(argsList) < 2
    THEN FALSE
    ELSE \A i \in 1..Len(argsList) :
            Stringify(argsList[i]) = Stringify(argsList[1])

\* The decision of detectRepetition on the pruned history that holds the
\* call: "throw", "true" (warning) or "false".
Detect(history, limit, toolName) ==
    LET recentSameTools ==
            SelectSeq(SliceLast(history, limit),
                      LAMBDA e : e.toolName = toolName)
        argsList == [i \in 1..Len(recentSameTools) |-> recentSameTools[i].args]
    IN  IF Len(recentSameTools) >= limit
        THEN IF AreArgumentsSimilar(argsList) THEN "throw" ELSE "true"
        ELSE "false"

\* What `detLast` records; pruned counts the entries the filter of the
\* call removed.
DetStep(op, toolName, args, outcome) ==
    [op |-> op, toolName |-> toolName, args |-> args, outcome |-> outcome,
     pruned |-> 0]

DetNone == DetStep("none", "", <<>>, "")

DetKeeps ==
    /\ UNCHANGED <<ws, checkpoints, cpLast, cpOps, consecutiveLimit>>
    /\ UNCHANGED <<cpTimes, cpDisk, cpCreated, cpEvents, subtasks, stCreated>>
    /\ UNCHANGED <<agentVars, gateVars, toolVars, taskVars, lateVars>>

\* ToolRepetitionDetector.detectRepetition, called dt after the last call.
DetectRepetition(toolName, args, dt) ==
    /\ detCalls < MaxDetCalls
    /\ detCalls' = detCalls + 1
    /\ now' = now + dt
    /\ LET pushed == Append(toolHistory,
                            [toolName |-> toolName, timestamp |-> now',
                             args |-> args])
           kept == Fresh(pushed, now')
       IN  /\ toolHistory' = kept
           /\ detLast' = [DetStep("detect", toolName, args,
                                  Detect(kept, consecutiveLimit, toolName))
                            EXCEPT !.pruned = Len(pushed) - Len(kept)]
    /\ DetKeeps

\* ToolRepetitionDetector.reset
Reset ==
    /\ detCalls < MaxDetCalls
    /\ detCalls' = detCalls + 1
    /\ toolHistory' = <<>>
    /\ detLast' = DetStep("reset", "", <<>>, "")
    /\ UNCHANGED now
    /\ DetKeeps

NextDetector ==
    \/ \E toolName \in DetTools, args \in DetArgs, dt \in DetDelays :
          DetectRepetition(toolName, args, dt)
    \/ Reset

(***************************************************************************)
(* Properties of the ToolRepetitionDetector                                *)
(***************************************************************************)

\* The most recent consecutiveLimit entries of the history.
MostRecent == SliceLast(toolHistory, consecutiveLimit)

\* The entries among them that have the name of the call just made.
SameName == SelectSeq(MostRecent, LAMBDA e : e.toolName = detLast.toolName)

\* All of them have the serialized arguments of the call just made.
IdenticalArguments ==
    \A i \in 1..Len(SameName) :
        Stringify(SameName[i].args) = Stringify(detLast.args)

\* What C20 says of the call just made.
Verdict ==
    IF Len(SameName) < consecutiveLimit THEN "false"
    ELSE IF IdenticalArguments THEN "throw"
    ELSE "true"

\* C20: after the call is appended and the stale entries are pruned,
\* detectRepetition returns not-repeating when fewer than consecutiveLimit
\* of the most recent consecutiveLimit entries have the tool name, fails
\* with LoopDetected when all have the name and identical serialized
\* arguments, and returns a warning when the arguments differ.
C20_DetectRepetitionVerdict ==
    detLast.op = "detect" => detLast.outcome = Verdict

\* C20, for a limit of two or more.
C20_VerdictWhenLimitAtLeastTwo ==
    (detLast.op = "detect" /\ consecutiveLimit >= 2)
        => detLast.outcome = Verdict

\* With a limit of one no call fails: each returns a warning.
C20_LimitOneNeverFails ==
    (detLast.op = "detect" /\ consecutiveLimit = 1)
        => detLast.outcome = "true"

\* Each verdict is given: a loop, a warning and not-repeating.
C20_LoopIsDetected ==
    /\ detLast.op = "detect"
    /\ consecutiveLimit >= 2
    /\ detLast.outcome = "throw"

C20_WarningIsGiven ==
    /\ detLast.op = "detect"
    /\ consecutiveLimit >= 2
    /\ detLast.outcome = "true"

\* C33: after a call of detectRepetition the history holds the call and
\* only entries younger than StaleAfter, a warning or a loop is founded on
\* such entries alone, and reset() leaves the history empty.
C33_WindowHoldsFreshEntriesOnly ==
    /\ detLast.op = "detect"
          => /\ toolHistory # <<>>
             /\ toolHistory[Len(toolHistory)].timestamp = now
             /\ \A k \in 1..Len(toolHistory) :
                   now - toolHistory[k].timestamp < StaleAfter
             /\ detLast.outcome # "false"
                   => /\ Len(SameName) >= consecutiveLimit
                      /\ \A k \in 1..Len(SameName) :
                            now - SameName[k].timestamp < StaleAfter
    /\ detLast.op = "reset" => toolHistory = <<>>

\* Of three calls, the first was pruned by the second, made StaleAfter
\* later, and the third, made just within StaleAfter of the second, finds
\* the second and completes a loop of two.
C33_Witness ==
    /\ detLast.op = "detect"
    /\ consecutiveLimit = 2
    /\ detCalls = 3
    /\ Len(toolHistory) = 2
    /\ toolHistory[1].timestamp = StaleAfter
    /\ now - toolHistory[1].timestamp = StaleAfter - 1
    /\ detLast.outcome = "throw"

\* A call has pruned an entry and is answered not-repeating.
C33_WitnessPruned ==
    /\ detLast.op = "detect"
    /\ detLast.pruned = 1
    /\ Len(toolHistory) = 1
    /\ detLast.outcome = "false"

(***************************************************************************)
(* Part 7: tool execution of the Task (TaskAgent, TaskLevelAgent)          *)
(***************************************************************************)

\* Calls of executeTool made on one TaskAgent, and on one TaskLevelAgent.
MaxTaskOps == 3
MaxLevelOps == 6

\* TaskLevelAgent.maxConsecutiveToolUse
maxConsecutiveToolUse == 5

\* How super.executeTool ends.  Agent.executeTool is a stub that throws;
\* an implementation returns a ToolResult, which executeTool tests for
\* success.
SuperOutcomes == {"throws", "failure", "success"}

TaskTools == {"read_file", "write_file"}
TaskArgs == {ArgsPathA, ArgsPathB}

\* What taskLast records of a call of executeTool: the call, how many
\* identical calls in a row it ends, whether super.executeTool was called,
\* and how the call ended.
TaskStep(op, toolName, args, streak, executed, outcome) ==
    [op |-> op, toolName |-> toolName, args |-> args, streak |-> streak,
     executed |-> executed, outcome |-> outcome]

TaskNone == TaskStep("none", "", <<>>, 0, FALSE, "")

\* The identical calls in a row that end with this call.
Streak(toolName, args) ==
    IF taskLast.op = "executeTool" /\ taskLast.toolName = toolName
          /\ taskLast.args = args
    THEN taskLast.streak + 1
    ELSE 1

TaskKeeps ==
    /\ UNCHANGED <<cpVars, gateVars, toolVars, agentVars, lateVars>>
    /\ UNCHANGED <<cpTimes, cpDisk, cpCreated, cpEvents, subtasks, stCreated>>
    /\ UNCHANGED <<children, waiters>>

\* TaskAgent.executeTool, called dt after the last call; super.executeTool
\* ends as base.
TaskExecuteTool(toolName, args, dt, base) ==
    /\ taskOps < MaxTaskOps
    /\ taskOps' = taskOps + 1
    /\ now' = now + dt
    /\ detCalls' = detCalls + 1
    /\ LET kept == Fresh(Append(toolHistory,
                                [toolName |-> toolName, timestamp |-> now',
                                 args |-> args]), now')
           isRepeating == Detect(kept, consecutiveLimit, toolName)
       IN  /\ detLast' = DetStep("detect", toolName, args, isRepeating)
           /\ IF isRepeating = "throw"
              THEN /\ toolHistory' = kept
                   /\ taskLast' = TaskStep("executeTool", toolName, args,
                                           Streak(toolName, args), FALSE,
                                           "LoopDetected")
              ELSE /\ toolHistory' = IF base = "success" THEN <<>> ELSE kept
                   /\ taskLast' = TaskStep("executeTool", toolName, args,
                                           Streak(toolName, args), TRUE, base)
    /\ UNCHANGED <<consecutiveLimit, toolRepetitionCount>>
    /\ TaskKeeps

\* TaskLevelAgent.detectToolRepetition: the count before the call.
DetectToolRepetition(counts, toolName) ==
    IF counts[toolName] >= maxConsecutiveToolUse THEN "throw"
    ELSE IF counts[toolName] > 2 THEN "true"
    ELSE "false"

\* TaskLevelAgent.executeTool; super.executeTool ends as base.
LevelExecuteTool(toolName, args, base) ==
    /\ taskOps < MaxLevelOps
    /\ taskOps' = taskOps + 1
    /\ LET isRepeating == DetectToolRepetition(toolRepetitionCount, toolName)
           counted == [toolRepetitionCount EXCEPT ![toolName] = @ + 1]
       IN  IF isRepeating = "throw"
           THEN /\ toolRepetitionCount' = counted
                /\ taskLast' = TaskStep("executeTool", toolName, args,
                                        Streak(toolName, args), FALSE,
                                        "LoopDetected")
           ELSE /\ toolRepetitionCount' =
                      IF base = "success"
                      THEN [counted EXCEPT ![toolName] = 0]
                      ELSE counted
                /\ taskLast' = TaskStep("executeTool", toolName, args,
                                        Streak(toolName, args), TRUE, base)
    /\ UNCHANGED <<now, detVars>>
    /\ TaskKeeps

NextTaskAgent ==
    \E toolName \in TaskTools, args \in TaskArgs, dt \in DetDelays,
       base \in SuperOutcomes :
        TaskExecuteTool(toolName, args, dt, base)

NextTaskLevelAgent ==
    \E toolName \in TaskTools, args \in TaskArgs, base \in SuperOutcomes :
        LevelExecuteTool(toolName, args, base)

(***************************************************************************)
(* Properties of the tool execution of the Task                            *)
(***************************************************************************)

\* C21: the call that makes consecutiveLimit identical calls in a row
\* raises LoopDetected and does not reach the tool, whether the calls
\* before it succeeded or failed.
C21_TriggeringCallIsNotExecuted ==
    (taskLast.op = "executeTool" /\ taskLast.streak = consecutiveLimit)
        => taskLast.outcome = "LoopDetected" /\ ~taskLast.executed

\* C21, for the calls that failed: after identical calls that did not
\* succeed (they are all in the history), made without a pause, under a
\* limit of two or more, the triggering call raises LoopDetected.
C21_TriggeringCallAfterFailures ==
    (/\ taskLast.op = "executeTool"
     /\ taskLast.streak = consecutiveLimit
     /\ consecutiveLimit >= 2
     /\ Len(toolHistory) >= consecutiveLimit
     /\ now = 0)
        => taskLast.outcome = "LoopDetected" /\ ~taskLast.executed

\* C21, for a limit of two or more and calls made without a pause,
\* whether the calls before succeeded or failed.
C21_TriggeringCallWithoutPause ==
    (/\ taskLast.op = "executeTool"
     /\ taskLast.streak = consecutiveLimit
     /\ consecutiveLimit >= 2
     /\ now = 0)
        => taskLast.outcome = "LoopDetected" /\ ~taskLast.executed

\* C21, in the TaskLevelAgent: the fifth identical call in a row raises
\* LoopDetected.
C21_LevelTriggeringCallIsNotExecuted ==
    (taskLast.op = "executeTool" /\ taskLast.streak = maxConsecutiveToolUse)
        => taskLast.outcome = "LoopDetected" /\ ~taskLast.executed

\* A call that raises LoopDetected never reaches the tool.
C21_LoopDetectedIsNotExecuted ==
    taskLast.outcome = "LoopDetected" => ~taskLast.executed

(***************************************************************************)
(* Part 8: sliding window (SlidingWindow.ts, TaskLevelAgent)               *)
(***************************************************************************)

\* The longest message log handed to truncateConversationIfNeeded, beside
\* the log of 100 messages.
MaxMessages == 5

\* TaskLevelAgent.contextWindow
LevelContextWindow == 128000

\* A log of n messages: the messages are numbered in their order.
Log(n) == [k \in 1..n |-> k]

\* TruncateOptions.  The percentages are those whose hundredth is an exact
\* double, so that messages.length * keepPercent is the exact product.
TruncateOptions ==
    [messages : {Log(n) : n \in (0..MaxMessages) \cup {100}},
     totalTokens : {36000, 36001, 50000, 102400, 102401},
     maxTokens : {4000},
     contextWindow : {40000},
     autoCondenseContext : BOOLEAN,
     autoCondenseContextPercent : {0, 50, 75, 100}]

\* Math.floor(n * percent / 100)
FloorPercent(n, percent) == (n * percent) \div 100

\* arr.slice(-n)
SliceFromEnd(arr, n) ==
    IF n = 0 \/ n >= Len(arr) THEN arr
    ELSE SubSeq(arr, Len(arr) - n + 1, Len(arr))

\* arr.slice(0, end)
SliceTo(arr, end) ==
    IF end >= Len(arr) THEN arr
    ELSE IF end >= 0 THEN SubSeq(arr, 1, end)
    ELSE SubSeq(arr, 1, IF Len(arr) + end > 0 THEN Len(arr) + end ELSE 0)

\* generateSummary: "Summary of <count> messages:" and the start of their
\* text.
GenerateSummary(removed) == [count |-> Len(removed), of |-> removed]

\* TruncateResult; summary is undefined when defined is FALSE.
TruncateResult(msgs, defined, summary) ==
    [messages |-> msgs, defined |-> defined, summary |-> summary]

NoSummary == GenerateSummary(<<>>)

\* truncateConversationIfNeeded (SlidingWindow.ts)
TruncateConversationIfNeeded(options) ==
    LET msgs == options.messages
        availableTokens == options.contextWindow - options.maxTokens
        keepCount == FloorPercent(Len(msgs),
                                  options.autoCondenseContextPercent)
        simpleCount == FloorPercent(Len(msgs), 75)
    IN  IF options.totalTokens <= availableTokens
        THEN TruncateResult(msgs, FALSE, NoSummary)
        ELSE IF options.autoCondenseContext
        THEN TruncateResult(
                 SliceFromEnd(msgs, keepCount), TRUE,
                 GenerateSummary(SliceTo(msgs, Len(msgs) - keepCount)))
        ELSE TruncateResult(SliceFromEnd(msgs, simpleCount), FALSE,
                            NoSummary)

\* TaskLevelAgent.truncateConversationIfNeeded, for the estimate given.
LevelTruncateConversationIfNeeded(msgs, totalTokens) ==
    IF totalTokens * 10 > LevelContextWindow * 8
    THEN SliceFromEnd(msgs, FloorPercent(Len(msgs), 75))
    ELSE msgs

TruncStep(op, options, result) ==
    [op |-> op, options |-> options, result |-> result]

TruncKeeps ==
    /\ taskOps' = taskOps + 1
    /\ UNCHANGED <<toolRepetitionCount, children, waiters>>
    /\ UNCHANGED <<agentVars, cpVars, storeVars, gateVars, toolVars, detVars,
                   lateVars>>

\* A call of truncateConversationIfNeeded with the options drawn.
Truncate ==
    /\ taskLast.op = "options"
    /\ taskLast' = TruncStep("truncate", taskLast.options,
                             TruncateConversationIfNeeded(taskLast.options))
    /\ TruncKeeps

\* A call of TaskLevelAgent.truncateConversationIfNeeded on the same log.
LevelTruncate ==
    /\ taskLast.op = "options"
    /\ taskLast' = TruncStep("levelTruncate", taskLast.options,
                             TruncateResult(
                                 LevelTruncateConversationIfNeeded(
                                     taskLast.options.messages,
                                     taskLast.options.totalTokens),
                                 FALSE, NoSummary))
    /\ TruncKeeps

NextTruncate ==
    \/ Truncate
    \/ LevelTruncate

(***************************************************************************)
(* Properties of the sliding window                                        *)
(***************************************************************************)

\* The estimate fits: it is at most the window less the reservation.
Fits(options) ==
    options.totalTokens <= options.contextWindow - options.maxTokens

\* The last k of the messages, and the messages before them.
Trailing(msgs, k) == [i \in 1..k |-> msgs[Len(msgs) - k + i]]
Prefix(msgs, k) == [i \in 1..(Len(msgs) - k) |-> msgs[i]]

\* The number of messages C22 says are retained.
Retained(options) ==
    FloorPercent(Len(options.messages), options.autoCondenseContextPercent)

\* C22: truncateConversationIfNeeded returns the log and no summary when
\* the estimate fits; otherwise it returns the trailing floor(n*p/100)
\* messages, condensation enabled or not, and with condensation enabled a
\* summary of the discarded prefix.
C22_RetainsTrailingPercent ==
    taskLast.op = "truncate"
        => LET options == taskLast.options
               result == taskLast.result
           IN  IF Fits(options)
               THEN result.messages = options.messages /\ ~result.defined
               ELSE /\ result.messages
                          = Trailing(options.messages, Retained(options))
                    /\ options.autoCondenseContext
                          => /\ result.defined
                             /\ result.summary.of
                                   = Prefix(options.messages,
                                            Retained(options))

\* C22, where it holds: the estimate fits, or condensation is enabled and
\* at least one message is retained.
C22_RetainsTrailingPercentWhenCondensing ==
    (/\ taskLast.op = "truncate"
     /\ Fits(taskLast.options)
          \/ (taskLast.options.autoCondenseContext
                /\ Retained(taskLast.options) >= 1))
        => LET options == taskLast.options
               result == taskLast.result
           IN  IF Fits(options)
               THEN result.messages = options.messages /\ ~result.defined
               ELSE /\ result.messages
                          = Trailing(options.messages, Retained(options))
                    /\ result.defined
                    /\ result.summary.of
                          = Prefix(options.messages, Retained(options))

\* The scenario of C22: 100 messages at 75% leave the last 75 and a
\* summary of the other 25.
C22_Scenario ==
    /\ taskLast.op = "truncate"
    /\ Len(taskLast.options.messages) = 100
    /\ taskLast.options.autoCondenseContextPercent = 75
    /\ taskLast.result.messages = [i \in 1..75 |-> 25 + i]
    /\ taskLast.result.summary.count = 25

\* The retained messages and the summarized messages of a result make up
\* the log, each message in one of the two: the summarized messages are
\* the start of the log and the retained ones the rest.  A result without
\* a summary retains an end of the log.
Partitions(msgs, result) ==
    IF result.defined
    THEN result.summary.of \o result.messages = msgs
    ELSE /\ Len(result.messages) <= Len(msgs)
         /\ result.messages = Trailing(msgs, Len(result.messages))

\* C39: whenever a log of at least one message is truncated, the retained
\* and the summarized messages partition it, and their counts add up to
\* its length.
C39_RetainedAndSummarizedPartition ==
    (/\ taskLast.op \in {"truncate", "levelTruncate"}
     /\ Len(taskLast.options.messages) >= 1
     /\ taskLast.result.messages # taskLast.options.messages
          \/ taskLast.result.defined)
        => /\ Partitions(taskLast.options.messages, taskLast.result)
           /\ taskLast.result.defined
                 => Len(taskLast.result.messages)
                       + taskLast.result.summary.count
                          = Len(taskLast.options.messages)

\* C39, where at least one message is retained by the percentage.
C39_PartitionWhenSomethingIsRetained ==
    (/\ taskLast.op \in {"truncate", "levelTruncate"}
     /\ Retained(taskLast.options) >= 1
     /\ taskLast.result.messages # taskLast.options.messages
          \/ taskLast.result.defined)
        => /\ Partitions(taskLast.options.messages, taskLast.result)
           /\ taskLast.result.defined
                 => Len(taskLast.result.messages)
                       + taskLast.result.summary.count
                          = Len(taskLast.options.messages)

(***************************************************************************)
(* Part 9: the children of a Task (SubtaskManager, TaskLevelAgent)         *)
(***************************************************************************)

\* Calls made on the coordinator plus the model responses its children
\* receive.
MaxSubOps == 5

\* consecutiveMistakeLimit of a child (part_003:29, and the default of 3).
ChildMistakeLimit == consecutiveMistakeLimit

\* A child Agent after the synchronous part of start().  A child of the
\* SubtaskManager ("manager") has the two forwarding listeners and its
\* startSubtask call is pending; a child of a TaskLevelAgent ("level") has
\* no 'error' listener and its startSubtask call has returned.
\*   pc         as the positions of Part 1, "returned" once start() has
\*              resolved and "rejected" once it has rejected
\*   listening  the listeners startSubtask attached are still attached
\*   start      the startSubtask call: "pending", "returned" or "thrown"
\*   completed, errored   the child has signalled a completion, an error
\*   forwarded  every event it signalled reached the coordinator's emitter
NewChild(kind) ==
    [kind |-> kind, pc |-> "started", isRunning |-> TRUE,
     isAborted |-> FALSE, cnt |-> 0, listening |-> kind = "manager",
     start |-> IF kind = "manager" THEN "pending" ELSE "returned",
     completed |-> FALSE, errored |-> FALSE, forwarded |-> TRUE]

\* start()'s finally block of a child.
ChildFinally(c) == [c EXCEPT !.isRunning = FALSE, !.pc = "returned"]

\* processLoop of a child from the while test up to its next await.
ChildLoopTop(c) ==
    IF ~(c.isRunning /\ ~c.isAborted)
    THEN ChildFinally(c)
    ELSE IF c.cnt >= ChildMistakeLimit
    THEN [c EXCEPT !.pc = "guidance"]
    ELSE [c EXCEPT !.pc = "request"]

\* processLoop of a child resumes after makeApiRequest with outcome r.
ChildResponds(c, r) ==
    CASE r = "empty" -> ChildFinally(c)
      [] r = "text" -> [c EXCEPT !.pc = "sleep"]
      [] r = "complete" ->
            \* emit('completion'); break
            ChildFinally([c EXCEPT !.completed = TRUE,
                                   !.forwarded = @ /\ c.listening])
      [] r = "error" ->
            IF c.listening
            THEN \* catch: emit('error') is forwarded; the counter grows
                 ChildLoopTop([c EXCEPT !.cnt = @ + 1, !.errored = TRUE])
            ELSE \* emit('error') without a listener throws out of
                 \* processLoop and out of the catch of start()
                 [c EXCEPT !.isRunning = FALSE, !.pc = "rejected",
                           !.errored = TRUE, !.forwarded = FALSE]

\* Agent.abort of a child that leaves the abort flag alone.
AbortChildRunningOnly(c) == [c EXCEPT !.isRunning = FALSE]

\* Agent.abort of a child.
AbortChild(c) == [c EXCEPT !.isAborted = TRUE, !.isRunning = FALSE]

\* Agent.dispose of a child: abort, removeAllListeners.
DisposeChild(c) ==
    [c EXCEPT !.isAborted = TRUE, !.isRunning = FALSE, !.listening = FALSE]

\* A promise returned by waitForSubtask: "pending", "resolved" or
\* "rejected", with what it settled with; listening while its listeners
\* are attached; late when the child had signalled before the timer fired.
Waiter(kind, id) ==
    [kind |-> kind, id |-> id, state |-> "pending", value |-> "none",
     listening |-> TRUE, late |-> FALSE]

\* The listeners of the waiters of child id receive an event: onCompletion
\* resolves, onError rejects (SubtaskManager); resolve (TaskLevelAgent).
Notify(ws0, id, kind, event) ==
    [k \in 1..Len(ws0) |->
        IF ws0[k].id = id /\ ws0[k].kind = kind /\ ws0[k].state = "pending"
              /\ ws0[k].listening
              /\ (event = "completion" \/ kind = "manager")
        THEN [ws0[k] EXCEPT !.state = IF event = "completion"
                                      THEN "resolved" ELSE "rejected",
                            !.value = IF event = "completion"
                                      THEN "result" ELSE "error"]
        ELSE ws0[k]]

\* The ids in the Map of the SubtaskManager, of the TaskLevelAgent.
Outstanding(kind) == {id \in DOMAIN subtasks : children[id].kind = kind}

SubStep(op, kind, id, err) ==
    [op |-> op, kind |-> kind, id |-> id, err |-> err]

SubKeeps ==
    /\ UNCHANGED <<agentVars, cpVars, gateVars, toolVars, detVars, lateVars>>
    /\ UNCHANGED <<now, cpTimes, cpDisk, cpCreated, cpEvents>>
    /\ UNCHANGED toolRepetitionCount

\* A call on the coordinator, or a model response: one more input.
SubOp == taskOps < MaxSubOps /\ taskOps' = taskOps + 1

\* startSubtask (SubtaskManager up to its await of subtask.start(),
\* TaskLevelAgent to its return).
CreateChild(kind) ==
    LET id == stCreated + 1
    IN  /\ SubOp
        /\ stCreated < MaxSubtasks
        /\ stCreated' = id
        /\ children' = Append(children, NewChild(kind))
        /\ subtasks' = [i \in DOMAIN subtasks \cup {id} |->
                           IF i = id THEN "starting" ELSE subtasks[i]]
        /\ taskLast' = SubStep("startSubtask", kind, id, "none")
        /\ UNCHANGED waiters
        /\ SubKeeps

ManagerStartSubtask == CreateChild("manager")

LevelStartSubtask == CreateChild("level")

\* An internal step of child id: it leaves the coordinator alone.
ChildStep(id, c) ==
    /\ children' = [children EXCEPT ![id] = c]
    /\ taskLast' = SubStep("child", children[id].kind, id, "none")
    /\ UNCHANGED <<subtasks, stCreated>>
    /\ SubKeeps

\* start() of a child resumes after addMessage and enters processLoop.
ChildEnter(id) ==
    /\ id \in 1..Len(children)
    /\ children[id].pc = "started"
    /\ ChildStep(id, ChildLoopTop(children[id]))
    /\ UNCHANGED <<waiters, taskOps>>

\* processLoop of a child resumes after handleConsecutiveMistakes.
ChildGuidance(id) ==
    /\ id \in 1..Len(children)
    /\ children[id].pc = "guidance"
    /\ ChildStep(id, [children[id] EXCEPT !.cnt = 0, !.pc = "request"])
    /\ UNCHANGED <<waiters, taskOps>>

\* processLoop of a child resumes after makeApiRequest; its events reach
\* the listeners attached.
ChildRespond(id, r) ==
    /\ SubOp
    /\ id \in 1..Len(children)
    /\ children[id].pc = "request"
    /\ ChildStep(id, ChildResponds(children[id], r))
    /\ waiters' =
          IF r = "complete"
               /\ (children[id].listening \/ children[id].kind = "level")
          THEN Notify(waiters, id, children[id].kind, "completion")
          ELSE IF r = "error" /\ children[id].listening
          THEN Notify(waiters, id, children[id].kind, "error")
          ELSE waiters

\* processLoop of a child resumes after the 100 ms timer.
ChildWake(id) ==
    /\ id \in 1..Len(children)
    /\ children[id].pc = "sleep"
    /\ ChildStep(id, ChildLoopTop(children[id]))
    /\ UNCHANGED <<waiters, taskOps>>

\* SubtaskManager.startSubtask resumes after subtask.start(): it returns
\* the id, or deletes the child and throws.
StartSubtaskResumes(id) ==
    /\ id \in 1..Len(children)
    /\ children[id].start = "pending"
    /\ children[id].pc \in {"returned", "rejected"}
    /\ IF children[id].pc = "returned"
       THEN /\ children' = [children EXCEPT ![id].start = "returned"]
            /\ subtasks' = [i \in DOMAIN subtasks |->
                               IF i = id THEN "started" ELSE subtasks[i]]
            /\ taskLast' = SubStep("startSubtaskReturns", "manager", id, "none")
       ELSE /\ children' = [children EXCEPT ![id].start = "thrown"]
            /\ subtasks' = Without(subtasks, id)
            /\ taskLast' = SubStep("startSubtaskReturns", "manager", id, "error")
    /\ UNCHANGED <<waiters, taskOps, stCreated>>
    /\ SubKeeps

\* waitForSubtask of the SubtaskManager and of the TaskLevelAgent, up to
\* the promise returned.
WaitFor(kind, id) ==
    /\ SubOp
    /\ IF id \in Outstanding(kind)
       THEN /\ waiters' = Append(waiters, Waiter(kind, id))
            /\ taskLast' = SubStep("waitForSubtask", kind, id, "none")
       ELSE /\ UNCHANGED waiters
            /\ taskLast' = SubStep("waitForSubtask", kind, id, "NotFound")
    /\ UNCHANGED <<children, subtasks, stCreated>>
    /\ SubKeeps

ManagerWaitForSubtask(id) == WaitFor("manager", id)

LevelWaitForSubtask(id) == WaitFor("level", id)

\* The timer of a waiter fires: reject(timed out) in the SubtaskManager,
\* resolve(null) in the TaskLevelAgent.
WaitTimesOut(k) ==
    /\ k \in 1..Len(waiters)
    /\ waiters[k].state = "pending"
    /\ LET c == children[waiters[k].id]
       IN  waiters' = [waiters EXCEPT
              ![k].state = IF waiters[k].kind = "manager"
                           THEN "rejected" ELSE "resolved",
              ![k].value = IF waiters[k].kind = "manager"
                           THEN "timeout" ELSE "null",
              ![k].late = c.completed \/ c.errored]
    /\ taskLast' = SubStep("timeout", waiters[k].kind, waiters[k].id, "none")
    /\ UNCHANGED <<children, subtasks, stCreated, taskOps>>
    /\ SubKeeps

\* SubtaskManager.completeSubtask
ManagerCompleteSubtask(id) ==
    /\ SubOp
    /\ IF id \in Outstanding("manager")
       THEN /\ children' = [children EXCEPT ![id] = DisposeChild(@)]
            /\ subtasks' = Without(subtasks, id)
            /\ taskLast' = SubStep("completeSubtask", "manager", id, "none")
       ELSE /\ UNCHANGED <<children, subtasks>>
            /\ taskLast' = SubStep("completeSubtask", "manager", id, "NotFound")
    /\ UNCHANGED <<waiters, stCreated>>
    /\ SubKeeps

\* SubtaskManager.abortSubtask
ManagerAbortSubtask(id) ==
    /\ SubOp
    /\ IF id \in Outstanding("manager")
       THEN /\ children' = [children EXCEPT ![id] = AbortChild(@)]
            /\ subtasks' = Without(subtasks, id)
       ELSE UNCHANGED <<children, subtasks>>
    /\ taskLast' = SubStep("abortSubtask", "manager", id, "none")
    /\ UNCHANGED <<waiters, stCreated>>
    /\ SubKeeps

\* dispose of the SubtaskManager (with removeAllListeners) and of the
\* TaskLevelAgent: every child of the Map is disposed, the Map is cleared.
DisposeAll(kind) ==
    /\ SubOp
    /\ children' = [id \in 1..Len(children) |->
                       IF id \in Outstanding(kind)
                       THEN DisposeChild(children[id])
                       ELSE children[id]]
    /\ subtasks' = [id \in DOMAIN subtasks \ Outstanding(kind) |->
                       subtasks[id]]
    /\ waiters' = [k \in 1..Len(waiters) |->
                      IF waiters[k].kind = kind
                           /\ (kind = "manager"
                                 \/ waiters[k].id \in Outstanding(kind))
                      THEN [waiters[k] EXCEPT !.listening = FALSE]
                      ELSE waiters[k]]
    /\ taskLast' = SubStep("dispose", kind, 0, "none")
    /\ UNCHANGED stCreated
    /\ SubKeeps

ManagerDispose == DisposeAll("manager")

LevelDispose == DisposeAll("level")

NextSubtasks ==
    \/ ManagerStartSubtask
    \/ LevelStartSubtask
    \/ \E id \in SubtaskIds : ChildEnter(id)
    \/ \E id \in SubtaskIds : ChildGuidance(id)
    \/ \E id \in SubtaskIds, r \in Responses : ChildRespond(id, r)
    \/ \E id \in SubtaskIds : ChildWake(id)
    \/ \E id \in SubtaskIds : StartSubtaskResumes(id)
    \/ \E id \in SubtaskIds : ManagerWaitForSubtask(id)
    \/ \E id \in SubtaskIds : LevelWaitForSubtask(id)
    \/ \E k \in 1..MaxSubOps : WaitTimesOut(k)
    \/ \E id \in SubtaskIds : ManagerCompleteSubtask(id)
    \/ \E id \in SubtaskIds : ManagerAbortSubtask(id)
    \/ ManagerDispose
    \/ LevelDispose

(***************************************************************************)
(* Properties of the children                                              *)
(***************************************************************************)

\* C23: a wait settles with what the child did: it resolves with the
\* child's result only, and a timeout is an error that is reported only
\* when the child has signalled neither a completion nor an error.
C23_WaitSettlesWithTheChild ==
    \A k \in 1..Len(waiters) :
        /\ waiters[k].state = "resolved" => waiters[k].value = "result"
        /\ waiters[k].value \in {"timeout", "null"} => ~waiters[k].late

\* C23, for the SubtaskManager: a wait resolves with the result of a child
\* that completed, rejects with the error of a child that raised one, and
\* its timeout is a rejection.
C23_ManagerWaitReportsWhatHappened ==
    \A k \in 1..Len(waiters) :
        waiters[k].kind = "manager"
            => /\ waiters[k].state = "resolved"
                  => /\ waiters[k].value = "result"
                     /\ children[waiters[k].id].completed
               /\ waiters[k].value = "error"
                  => /\ waiters[k].state = "rejected"
                     /\ children[waiters[k].id].errored
               /\ waiters[k].value = "timeout"
                  => waiters[k].state = "rejected"

\* C23, for the SubtaskManager: no wait times out on a child that had
\* completed or raised an error.
C23_ManagerWaitSeesTheChild ==
    \A k \in 1..Len(waiters) :
        (waiters[k].kind = "manager" /\ waiters[k].value = "timeout")
            => ~waiters[k].late

\* C23: the timeout of a wait of the TaskLevelAgent is an error.
C23_LevelTimeoutIsAnError ==
    \A k \in 1..Len(waiters) :
        (waiters[k].kind = "level" /\ waiters[k].value = "null")
            => waiters[k].state = "rejected"

\* C24: startSubtask returns without waiting for the loop of the child to
\* finish (its call is never pending once the loop has ended), and every
\* completion and error of a child is forwarded to the coordinator.
C24_StartReturnsAtOnceAndForwards ==
    \A id \in 1..Len(children) :
        /\ children[id].start = "pending"
              => children[id].pc \notin {"returned", "rejected"}
        /\ children[id].forwarded

\* C24, the forwarding alone, for a child of the SubtaskManager that has
\* its listeners.
C24_ManagerForwardsWhileAttached ==
    \A id \in 1..Len(children) :
        (children[id].kind = "manager" /\ children[id].listening)
            => children[id].forwarded

\* C24, the return alone, for a child of the TaskLevelAgent.
C24_LevelStartReturnsAtOnce ==
    \A id \in 1..Len(children) :
        children[id].kind = "level" => children[id].start = "returned"

\* Child id passes the while test of its processLoop in this step.
ChildBeginsIteration(id) ==
    /\ taskLast'.op = "child"
    /\ taskLast'.id = id
    /\ children[id].pc # "guidance"
    /\ children'[id].pc \in {"guidance", "request"}

\* C25: abortSubtask(id) aborts the outstanding child id and takes it out
\* of the Map, dispose() aborts every child of the Map and empties it, and
\* an aborted child begins no further loop iteration.
C25_AbortedChildrenStop ==
    [][/\ \A id \in 1..Len(children) :
              children[id].isAborted => ~ChildBeginsIteration(id)
       /\ (taskOps' # taskOps /\ taskLast'.op = "abortSubtask"
             /\ taskLast'.id \in Outstanding("manager"))
            => /\ children'[taskLast'.id].isAborted
               /\ taskLast'.id \notin DOMAIN subtasks'
       /\ (taskOps' # taskOps /\ taskLast'.op = "dispose")
            => /\ \A id \in Outstanding(taskLast'.kind) :
                     children'[id].isAborted
               /\ {id \in DOMAIN subtasks' :
                      children'[id].kind = taskLast'.kind} = {}
      ]_vars

\* A child that was aborted while it awaited the model has left its loop,
\* and another child was disposed with the coordinator.
C25_Witness ==
    /\ \E id \in 1..Len(children) :
          /\ children[id].isAborted
          /\ children[id].listening
          /\ children[id].pc = "returned"
          /\ children[id].start = "returned"
          /\ id \notin DOMAIN subtasks
    /\ taskLast.op = "dispose"
    /\ \E id \in 1..Len(children) :
          /\ children[id].isAborted
          /\ ~children[id].listening

(***************************************************************************)
(* Part 10: a CheckpointManager constructed over an existing directory     *)
(***************************************************************************)

\* The checkpoints that CheckpointManagers constructed earlier left in
\* checkpointsDir.  Their ids are uuids, other than any id this manager
\* issues.  The first was written with the agentId this manager is
\* constructed with, the second with another agentId.
OwnPriorId == MaxCheckpoints + 1
OtherPriorId == MaxCheckpoints + 2
PriorIds == {OwnPriorId, OtherPriorId}

\* The ids a caller of this manager can know.
StoreIds == CheckpointIds \cup PriorIds

\* Checkpoint.agentId in <id>.json, compared with this.agentId.
AgentIdOnDisk(id) == IF id = OtherPriorId THEN "other" ELSE "this"

\* The workspace when the earlier managers took their checkpoints.
PriorWorkspace == [p \in Paths |-> IF p = <<NameA>> THEN "1" ELSE "absent"]

\* JSON.parse of <id>.json: the record createCheckpoint wrote.
ParsedFiles(id) ==
    IF id \in DOMAIN checkpoints THEN checkpoints[id]
    ELSE ScanWorkspaceFiles(PriorWorkspace)

ParsedTimestamp(id) == IF id \in DOMAIN cpTimes THEN cpTimes[id] ELSE 0

\* The orders in which fs.readdir can list the files.
Orders(ids) ==
    {q \in [1..Cardinality(ids) -> ids] :
        \A i, j \in DOMAIN q : q[i] = q[j] => i = j}

\* Positions of initialize(), which the constructor calls without awaiting:
\*   none     no manager is constructed over an existing directory
\*   mkdir    awaiting fs.mkdir (line 49)
\*   readdir  in loadExistingCheckpoints, awaiting fs.readdir (line 58)
\*   reading  awaiting fs.readFile of the next file (line 63)
\*   done     the loop has ended
\*   failed   a readFile threw and the catch of line 71 ended the loading
LoadKeeps ==
    /\ UNCHANGED <<ws, cpOps, now, cpDisk, cpCreated, cpEvents, subtasks,
                   stCreated>>
    /\ UNCHANGED <<agentVars, gateVars, toolVars, detVars, taskVars,
                   contVars, hubVars>>

LoadStep == CpStep("load", "none", 0, 0, EmptyDiff)

\* initialize() resumes after fs.mkdir: the directory exists.
LoadMkdir ==
    /\ loadPc = "mkdir"
    /\ loadPc' = "readdir"
    /\ cpLast' = LoadStep
    /\ UNCHANGED <<checkpoints, cpTimes, toLoad>>
    /\ LoadKeeps

\* loadExistingCheckpoints resumes after fs.readdir.
LoadReaddir ==
    /\ loadPc = "readdir"
    /\ toLoad' \in Orders(cpDisk)
    /\ loadPc' = IF toLoad' = <<>> THEN "done" ELSE "reading"
    /\ cpLast' = LoadStep
    /\ UNCHANGED <<checkpoints, cpTimes>>
    /\ LoadKeeps

\* this.checkpoints.set(checkpoint.id, checkpoint)
MapSet(cps, id, files) ==
    [i \in DOMAIN cps \cup {id} |-> IF i = id THEN files ELSE cps[i]]

\* loadExistingCheckpoints resumes after fs.readFile of the next file.
LoadRead ==
    LET id == Head(toLoad)
    IN  /\ loadPc = "reading"
        /\ cpLast' = LoadStep
        /\ IF id \notin cpDisk
           THEN /\ loadPc' = "failed"
                /\ UNCHANGED <<checkpoints, cpTimes, toLoad>>
           ELSE /\ toLoad' = Tail(toLoad)
                /\ loadPc' = IF toLoad' = <<>> THEN "done" ELSE "reading"
                /\ IF AgentIdOnDisk(id) = "this"
                   THEN /\ checkpoints' = MapSet(checkpoints, id,
                                                 ParsedFiles(id))
                        /\ cpTimes' = MapSet(cpTimes, id,
                                             ParsedTimestamp(id))
                   ELSE UNCHANGED <<checkpoints, cpTimes>>
        /\ LoadKeeps

\* The loading, and the operations called on the manager from the return
\* of its constructor on.
NextReopen ==
    \/ LoadMkdir
    \/ LoadReaddir
    \/ LoadRead
    \/ CreateCheckpoint
    \/ \E id \in StoreIds : RestoreCheckpoint(id)
    \/ \E id \in StoreIds : CompareWithCurrent(id)
    \/ \E id \in StoreIds : DeleteCheckpoint(id)

(***************************************************************************)
(* Properties of the manager constructed over an existing directory        *)
(***************************************************************************)

\* The operation just made looked up, in the Map, a checkpoint that is on
\* disk with the agentId of this manager.
LooksUpWritten ==
    /\ cpLast.op \in {"restore", "compareWithCurrent", "delete"}
    /\ cpLast.a \in cpDisk
    /\ AgentIdOnDisk(cpLast.a) = "this"

\* C40: restoreCheckpoint, compareWithCurrent and deleteCheckpoint find a
\* checkpoint that is on disk with the agentId of the manager, whenever
\* they are called after the constructor has returned.
C40_WrittenCheckpointIsFound ==
    LooksUpWritten => cpLast.err # "NotFound"

\* C40, once the loading has ended without a failure: the checkpoint is
\* found.
C40_FoundAfterLoading ==
    (LooksUpWritten /\ loadPc = "done") => cpLast.err # "NotFound"

\* C40: whatever the loading has done so far, createCheckpoint succeeds
\* and its checkpoint is in the Map and on disk; no checkpoint written
\* with another agentId is ever in the Map.
C40_CreateSucceeds ==
    /\ cpLast.op = "create"
          => /\ cpLast.err = "none"
             /\ cpLast.a \in DOMAIN checkpoints
             /\ cpLast.a \in cpDisk
    /\ OtherPriorId \notin DOMAIN checkpoints

(***************************************************************************)
(* Part 11: the TaskAgents of one process                                  *)
(***************************************************************************)

\* Calls made on the TaskAgents of the process.
MaxHubOps == 4

\* The TaskAgents that the process constructs, and the names of the MCP
\* servers they are asked to connect.
TaskAgentNames == {"task1", "task2"}
ServerNames == {"s1", "s2"}

\* The heap is the sequence of the objects constructed so far; an object is
\* named by its position.  The fields of a TaskAgent hold such names.
NewObject == Len(heap) + 1

\* new McpHub(); new ToolRepetitionDetector(limit)
McpHubObject == [class |-> "McpHub", servers |-> {}]
DetectorObject == [class |-> "ToolRepetitionDetector", toolHistory |-> <<>>]

\* The static McpHub.instance: the McpHub constructed, or 0 (undefined).
McpHubInstance ==
    IF \E o \in DOMAIN heap : heap[o].class = "McpHub"
    THEN CHOOSE o \in DOMAIN heap : heap[o].class = "McpHub"
    ELSE 0

\* McpHub.getInstance() returns McpHub.instance, which it sets first when
\* it is undefined.
GetInstance == McpHubInstance

HubStep(op, task, arg) == [op |-> op, task |-> task, arg |-> arg]

HubOp == taskOps < MaxHubOps /\ taskOps' = taskOps + 1

HubKeeps ==
    /\ UNCHANGED <<toolRepetitionCount, children, waiters>>
    /\ UNCHANGED <<agentVars, cpVars, storeVars, gateVars, toolVars, detVars,
                   contVars, loadVars>>

\* new TaskAgent(options)
ConstructTaskAgent(t) ==
    LET hub == IF GetInstance = 0 THEN NewObject ELSE GetInstance
        withHub == IF GetInstance = 0 THEN Append(heap, McpHubObject)
                   ELSE heap
        detector == Len(withHub) + 1
    IN  /\ HubOp
        /\ t \notin DOMAIN components
        /\ heap' = Append(withHub, DetectorObject)
        /\ components' =
              [u \in DOMAIN components \cup {t} |->
                  IF u = t
                  THEN [mcpHub |-> hub,
                        toolRepetitionDetector |-> detector]
                  ELSE components[u]]
        /\ taskLast' = HubStep("construct", t, "")
        /\ HubKeeps

\* TaskAgent.connectMcpServer({name}): McpHub.connectServer
ConnectMcpServer(t, name) ==
    /\ HubOp
    /\ t \in DOMAIN components
    /\ heap' = [heap EXCEPT ![components[t].mcpHub].servers = @ \cup {name}]
    /\ taskLast' = HubStep("connectMcpServer", t, name)
    /\ UNCHANGED components
    /\ HubKeeps

\* TaskAgent.executeTool(toolName) with a tool that fails: detectRepetition
\* pushes the call and keeps the last consecutiveLimit; the calls are made
\* within five minutes.
HubExecuteTool(t, toolName) ==
    /\ HubOp
    /\ t \in DOMAIN components
    /\ heap' = [heap EXCEPT
                   ![components[t].toolRepetitionDetector].toolHistory =
                       SliceFromEnd(Append(@, toolName),
                                    consecutiveMistakeLimit)]
    /\ taskLast' = HubStep("executeTool", t, toolName)
    /\ UNCHANGED components
    /\ HubKeeps

NextProcess ==
    \/ \E t \in TaskAgentNames : ConstructTaskAgent(t)
    \/ \E t \in TaskAgentNames, name \in ServerNames :
          ConnectMcpServer(t, name)
    \/ \E t \in TaskAgentNames, toolName \in DetTools :
          HubExecuteTool(t, toolName)

(***************************************************************************)
(* Properties of the TaskAgents of one process                             *)
(***************************************************************************)

\* What a TaskAgent reads through its fields.
StateOf(objects, fields) ==
    [f \in DOMAIN fields |-> objects[fields[f]]]

\* C37: a call on one TaskAgent leaves what every other TaskAgent reads
\* through its fields as it was: the TaskAgents share no object.
C37_CallsChangeTheirOwnTaskOnly ==
    [][\A u \in DOMAIN components :
          taskLast'.task # u
             => StateOf(heap', components'[u]) = StateOf(heap, components[u])
      ]_vars

\* C37, for the repetition window: a call on one TaskAgent leaves the
\* window of every other TaskAgent as it was, and no two TaskAgents hold
\* the same detector.
C37_WindowIsOwn ==
    [][/\ \A u \in DOMAIN components :
             taskLast'.task # u
                => heap'[components'[u].toolRepetitionDetector]
                     = heap[components[u].toolRepetitionDetector]
       /\ \A u, v \in DOMAIN components' :
             u # v => components'[u].toolRepetitionDetector
                        # components'[v].toolRepetitionDetector
      ]_vars

(***************************************************************************)
(* Part 12: the context window and the continuity of the TaskAgent         *)
(***************************************************************************)

\* Calls of handleContextWindowError and makeApiRequestWithContinuity.
MaxContOps == 3

\* content.length of the messages of a run: short messages, and messages
\* of which three exceed the window.
ContentLengths == {400, 200000}

\* Math.ceil(length / 4)
CeilQuarter(length) == (length + 3) \div 4

\* TaskAgent.estimateTokens
EstimateTokens(msgs) == Len(msgs) * CeilQuarter(contentLength)

\* The options that start (percent 75) and handleContextWindowError
\* (percent 50) pass to truncateConversationIfNeeded.
TaskTruncateOptions(msgs, percent) ==
    [messages |-> msgs,
     totalTokens |-> EstimateTokens(msgs),
     maxTokens |-> 4096,
     contextWindow |-> 128000,
     autoCondenseContext |-> TRUE,
     autoCondenseContextPercent |-> percent]

\* The metadata of a request; a property that is left out is "absent".
Metadata(previousResponseId, suppressPreviousResponseId) ==
    [taskId |-> "agentId",
     previousResponseId |-> previousResponseId,
     suppressPreviousResponseId |-> suppressPreviousResponseId]

NoMetadata == Metadata("absent", "absent")

\* What taskLast records of a call on the TaskAgent: the call, the result
\* of truncateConversationIfNeeded, the metadata of the request, whether a
\* context-window failure has been handled and the requests made since.
ContStep(op, result, metadata, handled, since) ==
    [op |-> op, result |-> result, metadata |-> metadata,
     handled |-> handled, since |-> since]

ContNone ==
    ContStep("none", TruncateResult(<<>>, FALSE, NoSummary), NoMetadata,
             FALSE, 0)

\* TaskAgent.start: the result of truncateConversationIfNeeded is logged,
\* then Agent.start runs.
TaskStart(i) ==
    /\ Input
    /\ \A j \in Loops : j < i => pc[j] # "none"
    /\ StartBody(i)
    /\ taskLast' = ContStep("start",
                            TruncateConversationIfNeeded(
                                TaskTruncateOptions(messages, 75)),
                            NoMetadata, taskLast.handled, taskLast.since)
    /\ UNCHANGED <<listening, abortedDuring, disposed>>
    /\ UNCHANGED <<cpVars, storeVars, gateVars, toolVars, detVars>>
    /\ UNCHANGED <<toolRepetitionCount, children, waiters, taskOps>>
    /\ UNCHANGED lateVars

ContKeeps ==
    /\ taskOps < MaxContOps
    /\ taskOps' = taskOps + 1
    /\ UNCHANGED <<agentVars, cpVars, storeVars, gateVars, toolVars, detVars>>
    /\ UNCHANGED <<toolRepetitionCount, children, waiters>>
    /\ UNCHANGED <<contentLength, lastResponseId, loadVars, hubVars>>

\* TaskAgent.handleContextWindowError
HandleContextWindowError ==
    /\ taskLast' = ContStep("handleContextWindowError",
                            TruncateConversationIfNeeded(
                                TaskTruncateOptions(messages, 50)),
                            NoMetadata, TRUE, 0)
    /\ skipPrevResponseIdOnce' = TRUE
    /\ ContKeeps

\* The flag is left as it is.
FlagKept(skip) == skip

\* if (this.skipPrevResponseIdOnce) this.skipPrevResponseIdOnce = false
FlagReset(skip) == IF skip THEN FALSE ELSE skip

\* TaskAgent.makeApiRequestWithContinuity
MakeApiRequestWithContinuity ==
    /\ taskLast' = ContStep("request", taskLast.result,
                            Metadata(
                                IF lastResponseId # "undefined"
                                      /\ ~skipPrevResponseIdOnce
                                THEN lastResponseId ELSE "absent",
                                IF skipPrevResponseIdOnce
                                THEN "true" ELSE "absent"),
                            taskLast.handled, taskLast.since + 1)
    /\ skipPrevResponseIdOnce' = FlagReset(skipPrevResponseIdOnce)
    /\ ContKeeps

NextContext ==
    \/ \E i \in Loops : TaskStart(i)
    \/ \E i \in Loops : Enter(i)
    \/ \E i \in Loops : Guidance(i)
    \/ \E i \in Loops, r \in Responses : Respond(i, r)
    \/ \E i \in Loops : Wake(i)
    \/ HandleContextWindowError
    \/ MakeApiRequestWithContinuity

(***************************************************************************)
(* Properties of the context window and the continuity                     *)
(***************************************************************************)

\* start() has run Agent.start in this step.
StartsRun == last'.op = "start" /\ last'.err = "none" /\ inputs' # inputs

\* handleContextWindowError has run in this step.
HandlesFailure == taskLast'.op = "handleContextWindowError" /\ taskOps' # taskOps

\* makeApiRequestWithContinuity has run in this step.
RequestsWithContinuity == taskLast'.op = "request" /\ taskOps' # taskOps

\* C31: the history that the requests of a run use is the history
\* truncateConversationIfNeeded retained at its start, followed by the
\* initial message; and after a context-window failure is handled the
\* history is the one retained at 50 percent.
C31_RequestsUseThePrunedHistory ==
    [][/\ StartsRun => messages' = Append(taskLast'.result.messages, "user")
       /\ HandlesFailure => messages' = taskLast'.result.messages
      ]_vars

\* C31, as the code has it: start() adds the initial message to the whole
\* log, handleContextWindowError leaves the log as it is, and a request of
\* processLoop is issued with the log as it is.
C31_TheLogIsNeverPruned ==
    [][/\ StartsRun => messages' = Append(messages, "user")
       /\ HandlesFailure => messages' = messages
       /\ \A i \in Loops :
             (IssuesRequest(i) /\ pc[i] # "guidance") => messages' = messages
       /\ Len(messages') >= Len(messages)
      ]_vars

InitStoreIdle ==
    /\ now = 0
    /\ cpTimes = NoCheckpoints
    /\ cpDisk = {}
    /\ cpCreated = 0
    /\ cpEvents = <<>>
    /\ subtasks = NoCheckpoints
    /\ stCreated = 0

InitGateIdle ==
    /\ approvalHistory = <<>>
    /\ gatePending = <<>>
    /\ gateLast = GateNone
    /\ gateCalls = 0
    /\ prompted = FALSE

InitToolsIdle ==
    /\ outside = "absent"
    /\ toolUses = <<>>
    /\ results = <<>>
    /\ toolLast = ToolNone
    /\ toolOps = 0
    /\ toolEvents = <<>>

InitDetIdle ==
    /\ consecutiveLimit = 5
    /\ toolHistory = <<>>
    /\ detLast = DetNone
    /\ detCalls = 0

InitTaskIdle ==
    /\ toolRepetitionCount = [t \in DetTools |-> 0]
    /\ children = <<>>
    /\ waiters = <<>>
    /\ taskLast = TaskNone
    /\ taskOps = 0

\* No TaskAgent request, no second CheckpointManager and no TaskAgent of
\* the process is modelled.
InitContIdle ==
    /\ contentLength = 0
    /\ lastResponseId = "undefined"
    /\ skipPrevResponseIdOnce = FALSE

InitLoadIdle ==
    /\ loadPc = "none"
    /\ toLoad = <<>>

InitHubIdle ==
    /\ components = <<>>
    /\ heap = <<>>

InitLateIdle ==
    /\ InitContIdle
    /\ InitLoadIdle
    /\ InitHubIdle

\* The Agent alone: an empty workspace and no checkpoint.
InitCpIdle ==
    /\ ws = [p \in Paths |-> "absent"]
    /\ checkpoints = NoCheckpoints
    /\ cpLast = CpNone
    /\ cpOps = 0

Init ==
    /\ InitAgent
    /\ InitLateIdle
    /\ InitCpIdle
    /\ InitStoreIdle
    /\ InitGateIdle
    /\ InitToolsIdle
    /\ InitDetIdle
    /\ InitTaskIdle

Next == NextAgent

Spec == Init /\ [][Next]_vars

\* The CheckpointManager of a Task on any workspace tree.
InitCheckpoint ==
    /\ InitAgent
    /\ InitLateIdle
    /\ ws \in {w \in [Paths -> Contents \cup {"absent", "dir"}] :
                 /\ ValidTree(w)
                 /\ w[<<NameA, NameB>>] # "dir"
                 /\ w[<<NameB>>] # "dir"
                 /\ w[<<NameEnv>>] # "dir"}
    /\ checkpoints = NoCheckpoints
    /\ cpLast = CpNone
    /\ cpOps = 0
    /\ InitStoreIdle
    /\ InitGateIdle
    /\ InitToolsIdle
    /\ InitDetIdle
    /\ InitTaskIdle

SpecCheckpoint == InitCheckpoint /\ [][NextCheckpoint]_vars

\* The stores of a Task whose workspace holds the file a.
InitStore ==
    /\ InitAgent
    /\ InitLateIdle
    /\ ws = [p \in Paths |-> IF p = <<NameA>> THEN "1" ELSE "absent"]
    /\ checkpoints = NoCheckpoints
    /\ cpLast = CpNone
    /\ cpOps = 0
    /\ InitStoreIdle
    /\ InitGateIdle
    /\ InitToolsIdle
    /\ InitDetIdle
    /\ InitTaskIdle

SpecStore == InitStore /\ [][NextStore]_vars

\* One gate with an empty history.
InitGate ==
    /\ InitAgent
    /\ InitLateIdle
    /\ InitCpIdle
    /\ InitStoreIdle
    /\ InitGateIdle
    /\ InitToolsIdle
    /\ InitDetIdle
    /\ InitTaskIdle

SpecGate == InitGate /\ [][NextGate]_vars

\* One gate whose history holds maxHistorySize - 1 or maxHistorySize
\* entries, one recorded every millisecond up to now.
FilledHistory(n) ==
    [k \in 1..n |->
        HistoryEntry(Request("command", Details(CmdLs, <<>>, <<>>, <<>>)),
                     maxHistorySize - n + k, TRUE, TRUE)]

InitHistory ==
    /\ InitAgent
    /\ InitLateIdle
    /\ InitCpIdle
    /\ now = maxHistorySize
    /\ cpTimes = NoCheckpoints
    /\ cpDisk = {}
    /\ cpCreated = 0
    /\ cpEvents = <<>>
    /\ subtasks = NoCheckpoints
    /\ stCreated = 0
    /\ approvalHistory \in {FilledHistory(n) :
                               n \in {maxHistorySize - 1, maxHistorySize}}
    /\ gatePending = <<>>
    /\ gateLast = GateNone
    /\ gateCalls = 0
    /\ prompted = FALSE
    /\ InitToolsIdle
    /\ InitDetIdle
    /\ InitTaskIdle

SpecHistory == InitHistory /\ [][NextHistory]_vars

\* One gate with an empty history, and one request with its settings.
InitRouting ==
    /\ InitAgent
    /\ InitLateIdle
    /\ InitCpIdle
    /\ InitStoreIdle
    /\ approvalHistory = <<>>
    /\ gatePending = <<>>
    /\ gateLast \in {GateStep("input", s, q, FALSE, 0, "none", NoResult) :
                        s \in Settings, q \in Requests}
    /\ gateCalls = 0
    /\ prompted = FALSE
    /\ InitToolsIdle
    /\ InitDetIdle
    /\ InitTaskIdle

SpecRouting == InitRouting /\ [][NextRouting]_vars

\* A ToolExecutor on a workspace that holds the file a; beside the
\* workspace there may be a file x.
InitTools ==
    /\ InitAgent
    /\ InitLateIdle
    /\ ws = [p \in Paths |-> IF p = <<NameA>> THEN "1" ELSE "absent"]
    /\ checkpoints = NoCheckpoints
    /\ cpLast = CpNone
    /\ cpOps = 0
    /\ InitStoreIdle
    /\ InitGateIdle
    /\ outside \in {"absent", "1"}
    /\ toolUses = <<>>
    /\ results = <<>>
    /\ toolLast = ToolNone
    /\ toolOps = 0
    /\ toolEvents = <<>>
    /\ InitDetIdle
    /\ InitTaskIdle

SpecTools == InitTools /\ [][NextTools]_vars

\* A new ToolRepetitionDetector with a limit of 1..MaxLimit.
InitDetector ==
    /\ InitAgent
    /\ InitLateIdle
    /\ InitCpIdle
    /\ InitStoreIdle
    /\ InitGateIdle
    /\ InitToolsIdle
    /\ consecutiveLimit \in 1..MaxLimit
    /\ toolHistory = <<>>
    /\ detLast = DetNone
    /\ detCalls = 0
    /\ InitTaskIdle

SpecDetector == InitDetector /\ [][NextDetector]_vars

\* A new TaskAgent: its detector has a limit of 1..MaxLimit.
InitTaskAgent ==
    /\ InitAgent
    /\ InitLateIdle
    /\ InitCpIdle
    /\ InitStoreIdle
    /\ InitGateIdle
    /\ InitToolsIdle
    /\ consecutiveLimit \in 1..MaxLimit
    /\ toolHistory = <<>>
    /\ detLast = DetNone
    /\ detCalls = 0
    /\ InitTaskIdle

SpecTaskAgent == InitTaskAgent /\ [][NextTaskAgent]_vars

SpecTaskLevelAgent == Init /\ [][NextTaskLevelAgent]_vars

\* The options of one call of truncateConversationIfNeeded.
InitTruncate ==
    /\ InitAgent
    /\ InitLateIdle
    /\ InitCpIdle
    /\ InitStoreIdle
    /\ InitGateIdle
    /\ InitToolsIdle
    /\ InitDetIdle
    /\ toolRepetitionCount = [t \in DetTools |-> 0]
    /\ children = <<>>
    /\ waiters = <<>>
    /\ taskLast \in {TruncStep("options", o,
                                TruncateResult(<<>>, FALSE, NoSummary)) :
                         o \in TruncateOptions}
    /\ taskOps = 0

SpecTruncate == InitTruncate /\ [][NextTruncate]_vars

\* A coordinator without children.
SpecSubtasks == Init /\ [][NextSubtasks]_vars

\* A manager whose constructor has just returned: its Map is empty, and
\* checkpointsDir holds the checkpoints written earlier.
InitReopen ==
    /\ InitAgent
    /\ InitContIdle
    /\ InitHubIdle
    /\ ws \in {PriorWorkspace,
               [p \in Paths |-> IF p = <<NameA>> THEN "2" ELSE "absent"]}
    /\ checkpoints = NoCheckpoints
    /\ cpLast = CpNone
    /\ cpOps = 0
    /\ now = 1
    /\ cpTimes = NoCheckpoints
    /\ cpDisk = PriorIds
    /\ cpCreated = 0
    /\ cpEvents = <<>>
    /\ subtasks = <<>>
    /\ stCreated = 0
    /\ loadPc = "mkdir"
    /\ toLoad = <<>>
    /\ InitGateIdle
    /\ InitToolsIdle
    /\ InitDetIdle
    /\ InitTaskIdle

SpecReopen == InitReopen /\ [][NextReopen]_vars

\* A process that has constructed no TaskAgent.
SpecProcess == Init /\ [][NextProcess]_vars

\* A TaskAgent that has not been started; its messages have the length
\* drawn.
InitContext ==
    /\ InitAgent
    /\ InitCpIdle
    /\ InitStoreIdle
    /\ InitGateIdle
    /\ InitToolsIdle
    /\ InitDetIdle
    /\ toolRepetitionCount = [t \in DetTools |-> 0]
    /\ children = <<>>
    /\ waiters = <<>>
    /\ taskLast = ContNone
    /\ taskOps = 0
    /\ contentLength \in ContentLengths
    /\ lastResponseId = "undefined"
    /\ skipPrevResponseIdOnce = FALSE
    /\ InitLoadIdle
    /\ InitHubIdle

SpecContext == InitContext /\ [][NextContext]_vars

====
